---- MODULE Spec2Model ----
(***************************************************************************)
(* Generation pipeline and session store of the GarmentCode services.      *)
(*                                                                         *)
(* The 3D store is the directory ./tmp_3d_service, one sub-directory per   *)
(* session.  A handler of the FastAPI applications is an `async def` with  *)
(* no await in it, so it runs to completion on the event loop: one handler *)
(* is one atomic action.  The pattern compiler, the box-mesh builder, the  *)
(* simulator and the mesh library are external collaborators: an action    *)
(* draws their behaviour (which call raises, which mesh is written) from   *)
(* a small set.                                                            *)
(***************************************************************************)
EXTENDS Integers, Sequences, FiniteSets, TLC

\* how many session identifiers uuid4 hands to the 3D handlers and to the
\* 2D handlers in a run
MaxSessions == 2
MaxSvgSessions == 1

\* uuid4 tokens: those the 3D handlers draw, those the 2D handlers draw, and
\* all of them (a download or a cleanup may name any)
Ids3D == 1..MaxSessions
IdsSvg == (MaxSessions + 1)..(MaxSessions + MaxSvgSessions)
SessionIds == Ids3D \cup IdsSvg
NoSession == 0

\* str(uuid.uuid4()): an identifier that was not returned before.  The
\* tokens are opaque, so they are named in the order uuid4 returns them:
\* the next one of a pool is its least unissued token (none is left when the
\* pool is used up).
uuid4(pool, used) == {s \in pool \ used : \A t \in pool \ used : s <= t}

\* ------------------------------------------------------------------ values
\* A JSON dictionary of a request: absent (None), the empty dictionary, or
\* a populated one.  "PD" is a pattern specification with a 'design' key.
DesignValues == {"None", "Empty", "D1"}
PatternValues == {"None", "Empty", "P", "PD"}
BodyValues == {"None", "Empty", "B1"}

\* Python truthiness of an optional dictionary: None and {} are falsy
Truthy(x) == x \notin {"None", "Empty"}

\* `x is None`
IsNone(x) == x = "None"

\* ------------------------------------------------------------------- files
\* A file of a session directory: folder / (tag ++ kind ++ "." ++ ext),
\* with its content, a sequence of tokens (<<>> is the empty file).
File(folder, tag, kind, ext, data) ==
    [folder |-> folder, tag |-> tag, kind |-> kind, ext |-> ext, data |-> data]

\* A path as a response reports it: the session directory and the file in it
PathOf(sid, f) ==
    [sid |-> sid, folder |-> f.folder, tag |-> f.tag, kind |-> f.kind, ext |-> f.ext]

NoPath == [sid |-> NoSession, folder |-> "", tag |-> "", kind |-> "", ext |-> ""]

SamePath(f, g) ==
    /\ f.folder = g.folder
    /\ f.tag = g.tag
    /\ f.kind = g.kind
    /\ f.ext = g.ext

\* A session directory that does not exist
NoDir == [exists |-> FALSE, files |-> {}]

\* variant: the directory is made anew
mkdir_fresh(store, sid) == [store EXCEPT ![sid] = [exists |-> TRUE, files |-> {}]]

\* Path.mkdir(parents=True, exist_ok=True)
mkdir(store, sid) ==
    IF store[sid].exists THEN store
    ELSE [store EXCEPT ![sid] = [exists |-> TRUE, files |-> {}]]

\* the store after `files` were written into a session directory: a file
\* replaces the one of the same path
WriteAll(store, sid, files) ==
    [store EXCEPT ![sid].files = {g \in @ : \A f \in files : ~SamePath(f, g)} \cup files]

\* ------------------------------------------------- external collaborators
\* What the collaborators do in one request: the first call that raises
\* ("none": no call raises), the mesh the simulator leaves on disk
\* ("missing": it returned without writing one; "partial": it wrote the
\* mesh of a run that did not converge), and whether the simulator, having
\* written a mesh, recorded the statistics of the run in the properties it
\* was given.
Stages3D == {"body", "assembly", "serialize", "save", "boxmesh", "sim", "export"}
MeshValues == {"missing", "partial", "converged"}
Ext3D ==
    {e \in [fail : Stages3D \cup {"none"}, mesh : MeshValues, stats : BOOLEAN] :
        /\ e.fail \notin {"export", "none"} => e.mesh = "missing"
        /\ e.stats => e.mesh # "missing"}

\* variant: the export is called before the simulation
Pipeline3D_export_first == <<"body", "assembly", "serialize", "save", "boxmesh", "export", "sim">>

\* the calls of generate_3d that may raise, in program order
Pipeline3D == <<"body", "assembly", "serialize", "save", "boxmesh", "sim", "export">>

\* variant: the call that raised is made a second time
invoked_retry(order, stage) ==
    LET i == CHOOSE k \in 1..Len(order) : order[k] = stage
    IN  SubSeq(order, 1, i) \o <<stage>>

\* the calls made when `stage` is the first that raises: those before it
\* and itself; an exception leaves the function, so none after it
invoked(order, stage) ==
    LET i == CHOOSE k \in 1..Len(order) : order[k] = stage
    IN  SubSeq(order, 1, i)

\* the measurements of a body profile, and the canonical profile
\* assets/bodies/mean_all.yaml
Measurements == {"height", "waist"}
mean_all == [m \in Measurements |-> "mean"]

\* the dictionary a body_params value of a request stands for: "B1" names
\* one measurement, the empty dictionary and None name none
body_dict(body_params) ==
    IF body_params = "B1" THEN [m \in {"height"} |-> "custom"]
    ELSE [m \in {} |-> "custom"]

\* BodyParameters(param_file): the measurements read from the file; the call
\* without a file reads none
BodyParameters(param_file) ==
    IF param_file = "assets/bodies/mean_all.yaml" THEN mean_all
    ELSE [m \in {} |-> "mean"]

\* body.load_from_dict(in_dict): the measurements of the dictionary are set
\* in the profile
load_from_dict(params, in_dict) ==
    [m \in DOMAIN params \cup DOMAIN in_dict |->
        IF m \in DOMAIN in_dict THEN in_dict[m] ELSE params[m]]

\* GarmentTo3DService.__init__: the attributes of the service object.  The
\* statistic sections of sim_props (fails, sim_time, spf, fin_frame, ...)
\* are created empty: `stats` is the set of garment names they have an
\* entry for.
GarmentTo3DService_init ==
    [default_body_params |-> BodyParameters("assets/bodies/mean_all.yaml"),
     sim_props |-> [config |-> "gui_sim_props", stats |-> {}]]

\* GarmentSVGService.__init__
GarmentSVGService_init ==
    [default_body_params |-> BodyParameters("assets/bodies/mean_all.yaml")]

\* variant: the overrides are loaded into the profile of the service
resolve_body_shared(self, body_params) ==
    IF Truthy(body_params)
    THEN LET body == load_from_dict(self.default_body_params, body_dict(body_params))
         IN  [self |-> [self EXCEPT !.default_body_params = body], body |-> body]
    ELSE [self |-> self, body |-> self.default_body_params]

\* `if body_params: body = BodyParameters(); body.load_from_dict(body_params)
\*  else: body = self.default_body_params`: the body a request works with,
\* and the service object after it
resolve_body(self, body_params) ==
    IF Truthy(body_params)
    THEN [self |-> self, body |-> load_from_dict(BodyParameters(""), body_dict(body_params))]
    ELSE [self |-> self, body |-> self.default_body_params]

\* variant: with_3d=True, the panels are also written as a 3D mesh
serialize_with_3d(name, content, with_printable) ==
    {File(name, name, "_specification", "json", <<"spec", content>>),
     File(name, name, "_pattern", "svg", <<"svg", content>>),
     File(name, name, "_pattern", "png", <<"png", content>>),
     File(name, name, "_3d_pattern", "obj", <<"obj", content>>)}
    \cup (IF with_printable
          THEN {File(name, name, "_print_pattern", "pdf", <<"pdf", content>>)}
          ELSE {})

\* pattern.serialize(session_dir, to_subfolder=True, with_3d=False, ...):
\* the folder <name> with the specification, the pattern drawings and,
\* with_printable, the print document.  The flags with_text and view_ids
\* label the drawing and add no file: they are left out.
serialize(name, content, with_printable) ==
    {File(name, name, "_specification", "json", <<"spec", content>>),
     File(name, name, "_pattern", "svg", <<"svg", content>>),
     File(name, name, "_pattern", "png", <<"png", content>>)}
    \cup (IF with_printable
          THEN {File(name, name, "_print_pattern", "pdf", <<"pdf", content>>)}
          ELSE {})

\* variant: the canonical profile is saved, whatever the request's body
body_save_default(folder, body) == File(folder, "body_measurements", "", "yaml", <<"body", mean_all>>)

\* body.save(pattern_folder)
body_save(folder, body) == File(folder, "body_measurements", "", "yaml", <<"body", body>>)

\* yaml.dump({'design': design_params}, f) into design_params.yaml
design_dump(folder, design_params) ==
    File(folder, "design_params", "", "yaml", <<"design", design_params>>)

\* garment_box_mesh.serialize(paths, ...): the box mesh under paths.out_el
boxmesh_serialize(out_el, name) == File(out_el, name, "_boxmesh", "obj", <<"boxmesh">>)

\* run_sim(garment_box_mesh.name, self.sim_props, paths, ...): the properties
\* after the run, with the entry of the garment if the run recorded one
run_sim(sim_props, name, recorded) ==
    IF recorded THEN [sim_props EXCEPT !.stats = @ \cup {name}] ELSE sim_props

\* paths.g_sim as run_sim writes it
g_sim(out_el, name, mesh) == File(out_el, name, "_sim", "obj", <<"obj", mesh>>)

\* variant: the export leaves an empty file
export_empty(out_el, name, mesh_data) == File(out_el, name, "_sim", "glb", <<>>)

\* mesh.export(glb_path): the binary container around the loaded mesh
export(out_el, name, mesh_data) == File(out_el, name, "_sim", "glb", <<"glTF">> \o mesh_data)

\* ------------------------------------------------------ GarmentTo3DService
\* variant: a request that fails takes the work directories with it
Raised_removed(self, store, trace) ==
    [raised |-> TRUE, self |-> self, store |-> [s \in DOMAIN store |-> NoDir], trace |-> trace,
     out_el |-> "", glb_path |-> NoPath]

Raised(self, store, trace) ==
    [raised |-> TRUE, self |-> self, store |-> store, trace |-> trace,
     out_el |-> "", glb_path |-> NoPath]

Returned(self, store, trace, out_el, glb_path) ==
    [raised |-> FALSE, self |-> self, store |-> store, trace |-> trace,
     out_el |-> out_el, glb_path |-> glb_path]

\* variant: every session works in one directory
session_dir_shared(session_id) == 1

\* the directory of the session: self.output_root / session_id
session_dir(session_id) == session_id

\* GarmentTo3DService.generate_3d(design_params, session_id, body_params)
service_generate_3d(self, store, design_params, session_id, body_params, ext) ==
    LET dir == session_dir(session_id)
        s0 == mkdir(store, dir)
        resolved == resolve_body(self, body_params)
        self1 == resolved.self
        body == resolved.body
        name == "Configured_design"
        s1 == WriteAll(s0, dir, serialize(name, design_params, TRUE))
        s2 == WriteAll(s1, dir, {body_save(name, body)})
        s3 == WriteAll(s2, dir, {design_dump(name, design_params)})
        out_el == "Configured_design_3D"
        s4 == WriteAll(s3, dir, {boxmesh_serialize(out_el, name)})
        sim == g_sim(out_el, name, ext.mesh)
        s5 == IF ext.mesh = "missing" THEN s4 ELSE WriteAll(s4, dir, {sim})
        self2 == [self1 EXCEPT !.sim_props = run_sim(@, name, ext.stats)]
        glb == export(out_el, name, sim.data)
        s6 == WriteAll(s5, dir, {glb})
    IN  IF ext.fail = "body" THEN Raised(self, s0, invoked(Pipeline3D, ext.fail))
        ELSE IF ext.fail \in {"assembly", "serialize"}
        THEN Raised(self1, s0, invoked(Pipeline3D, ext.fail))
        ELSE IF ext.fail = "save" THEN Raised(self1, s1, invoked(Pipeline3D, ext.fail))
        ELSE IF ext.fail = "boxmesh" THEN Raised(self1, s3, invoked(Pipeline3D, ext.fail))
        ELSE IF ext.fail = "sim" THEN Raised(self1, s4, invoked(Pipeline3D, ext.fail))
        ELSE IF ext.fail = "export" \/ ext.mesh = "missing"
        THEN Raised(self2, s5, invoked(Pipeline3D, "export"))
        ELSE Returned(self2, s6, Pipeline3D, out_el, PathOf(dir, glb))

\* variant: rmtree without the exists() test raises on an absent directory
service_cleanup_session_unchecked(store, session_id) ==
    IF store[session_dir(session_id)].exists
    THEN [raised |-> FALSE, store |-> [store EXCEPT ![session_dir(session_id)] = NoDir]]
    ELSE [raised |-> TRUE, store |-> store]

\* variant: the cleanup removes the output root
service_cleanup_session_root(store, session_id) ==
    [raised |-> FALSE, store |-> [s \in DOMAIN store |-> NoDir]]

\* GarmentTo3DService.cleanup_session(session_id)
service_cleanup_session(store, session_id) ==
    IF store[session_dir(session_id)].exists
    THEN [raised |-> FALSE, store |-> [store EXCEPT ![session_dir(session_id)] = NoDir]]
    ELSE [raised |-> FALSE, store |-> store]

\* the keyword parameters of GarmentTo3DService.generate_3d, and those
\* without a default
generate_3d_parameters == {"design_params", "session_id", "body_params"}
generate_3d_required == {"design_params", "session_id"}

\* a call service.generate_3d(**kwargs): Python raises TypeError for an
\* unexpected keyword and for a missing required one, before the body runs
Binds(kwargs) ==
    kwargs \subseteq generate_3d_parameters /\ generate_3d_required \subseteq kwargs

\* the behaviours that differ for a call: the collaborators are not reached
\* by a call that does not bind
Ext3DFor(kwargs) ==
    IF Binds(kwargs) THEN Ext3D
    ELSE {[fail |-> "none", mesh |-> "converged", stats |-> FALSE]}

\* the body parameters that differ for a call: they are not read by a call
\* that does not bind
BodyValuesFor(kwargs) ==
    IF Binds(kwargs) THEN BodyValues ELSE {"None"}

call_generate_3d(self, store, kwargs, spec, session_id, body_params, ext) ==
    IF Binds(kwargs)
    THEN service_generate_3d(self, store, spec, session_id, body_params, ext)
    ELSE Raised(self, store, <<>>)

\* variant: the scan matches the simulated mesh in any format
glb_files_sim(store, session_id) ==
    {f \in store[session_dir(session_id)].files : f.kind = "_sim"}

\* session_dir.rglob("*.glb"): nothing when the directory is absent
glb_files(store, session_id) ==
    {f \in store[session_dir(session_id)].files : f.ext = "glb"}

\* ------------------------------------------------------------- responses
\* The record of the handler that ran last.  Of the request: op, design,
\* pattern, body, printable, arg (the session id in the URL).  Of the
\* response: status, session_id, output_dir, path, png, pdf.  Of the run:
\* uuid (the identifier uuid4 returned, NoSession if it was not called),
\* clean (no collaborator call raised and the simulator left its mesh),
\* existed (the directory a cleanup was asked to remove was there), trace
\* (the calls of the service method that were made, in order), fail (the
\* call that raised, "none" if none did).
Outcome(op, design, pattern, body, arg, status, uuid, session_id, output_dir, path) ==
    [op |-> op, design |-> design, pattern |-> pattern, body |-> body, arg |-> arg,
     printable |-> FALSE, clean |-> TRUE, existed |-> FALSE, trace |-> <<>>, fail |-> "none",
     status |-> status, uuid |-> uuid, session_id |-> session_id,
     output_dir |-> output_dir, path |-> path, png |-> NoPath, pdf |-> NoPath]

\* `except Exception as e: raise HTTPException(status_code=500, ...)` around
\* the body of a handler: HTTPException is an Exception, so a status raised
\* inside the try block is caught and replaced as well
except_Exception(status) == 500

\* what the 3D generation handlers answer after service.generate_3d
Generate3DResponse(op, design, pattern, body, uuid, ext, r) ==
    [(IF r.raised
      THEN Outcome(op, design, pattern, body, NoSession, except_Exception(500), uuid,
                   NoSession, "", NoPath)
      ELSE Outcome(op, design, pattern, body, NoSession, 200, uuid, uuid, r.out_el, r.glb_path))
     EXCEPT !.clean = (ext.fail = "none" /\ ext.mesh # "missing"),
            !.trace = r.trace,
            !.fail = IF r.raised /\ r.trace # <<>> THEN r.trace[Len(r.trace)] ELSE "none"]

\* ------------------------------------------------------- GarmentSVGService
\* the first call that raises on the raw-specification path and on the
\* parametric path of one request
RawStages == {"load", "serialize", "save"}
DesignStages == {"assembly", "serialize", "save"}
ExtSvg == [raw : RawStages \cup {"none"}, design : DesignStages \cup {"none"}]

\* the behaviours that differ for a request with this pattern specification:
\* a stage of a path the request does not take is left at "none"
ExtSvgFor(pattern) ==
    {e \in ExtSvg :
        /\ pattern = "None" => e.raw = "none"
        /\ (pattern # "None" /\ (e.raw = "none" \/ pattern # "PD")) => e.design = "none"}

RaisedSvg(store, trace) ==
    [raised |-> TRUE, store |-> store, trace |-> trace, pattern_folder |-> "",
     svg_file |-> NoPath, png_file |-> NoPath, pdf_file |-> NoPath]

\* variant: the print document is named whether or not it was asked for
ReturnedSvg_printable(store, trace, dir, name, with_printable) ==
    [raised |-> FALSE, store |-> store, trace |-> trace, pattern_folder |-> name,
     svg_file |-> [sid |-> dir, folder |-> name, tag |-> name, kind |-> "_pattern", ext |-> "svg"],
     png_file |-> [sid |-> dir, folder |-> name, tag |-> name, kind |-> "_pattern", ext |-> "png"],
     pdf_file |-> [sid |-> dir, folder |-> name, tag |-> name, kind |-> "_print_pattern", ext |-> "pdf"]]

\* the tuple (pattern_folder, svg_file, png_file, pdf_file) the service returns
ReturnedSvg(store, trace, dir, name, with_printable) ==
    [raised |-> FALSE, store |-> store, trace |-> trace, pattern_folder |-> name,
     svg_file |-> [sid |-> dir, folder |-> name, tag |-> name, kind |-> "_pattern", ext |-> "svg"],
     png_file |-> [sid |-> dir, folder |-> name, tag |-> name, kind |-> "_pattern", ext |-> "png"],
     pdf_file |-> IF with_printable
                  THEN [sid |-> dir, folder |-> name, tag |-> name, kind |-> "_print_pattern", ext |-> "pdf"]
                  ELSE NoPath]

\* GarmentSVGService._generate_svg_from_design_params; `trace` is the
\* methods of the service entered so far
generate_svg_from_design_params(store, trace, design_params, dir, body, with_printable, fail) ==
    LET name == "SVG_Pattern"
        entered == Append(trace, "design")
        s1 == WriteAll(store, dir, serialize(name, design_params, with_printable))
        s2 == WriteAll(s1, dir, {body_save(name, body)})
        s3 == WriteAll(s2, dir, {design_dump(name, design_params)})
    IN  IF fail \in {"assembly", "serialize"} THEN RaisedSvg(store, entered)
        ELSE IF fail = "save" THEN RaisedSvg(s1, entered)
        ELSE ReturnedSvg(s3, entered, dir, name, with_printable)

\* variant: the handler looks for the design under another key
HasDesign_never(pattern_specification) == FALSE

\* 'design' in pattern_specification
HasDesign(pattern_specification) == pattern_specification = "PD"

\* pattern_specification['design']
EmbeddedDesign(pattern_specification) == "D2"

\* GarmentSVGService._generate_svg_from_pattern_spec
generate_svg_from_pattern_spec(store, trace, pattern_specification, dir, body, pattern_name, with_printable, ext) ==
    LET entered == Append(trace, "raw")
        pattern_file == File("", pattern_name, "_specification", "json",
                             <<"json", pattern_specification>>)
        s1 == WriteAll(store, dir, {pattern_file})
        s2 == WriteAll(s1, dir, serialize(pattern_name, pattern_specification,
                                          with_printable))
        s3 == WriteAll(s2, dir, {body_save(pattern_name, body)})
        failed == IF ext.raw \in {"load", "serialize"} THEN s1 ELSE s2
    IN  IF ext.raw = "none" THEN ReturnedSvg(s3, entered, dir, pattern_name, with_printable)
        ELSE IF HasDesign(pattern_specification)
        THEN generate_svg_from_design_params(failed, entered,
                                             EmbeddedDesign(pattern_specification),
                                             dir, body, with_printable, ext.design)
        ELSE RaisedSvg(failed, entered)

\* GarmentSVGService.generate_svg
service_generate_svg(self, store, design_params, pattern_specification, session_id, body_params, with_printable, ext) ==
    IF IsNone(design_params) /\ IsNone(pattern_specification)
    THEN [self |-> self, r |-> RaisedSvg(store, <<>>)]
    ELSE LET dir == session_dir(session_id)
             s0 == mkdir(store, dir)
             resolved == resolve_body(self, body_params)
             body == resolved.body
         IN  [self |-> resolved.self,
              r |-> IF ~IsNone(pattern_specification)
                    THEN generate_svg_from_pattern_spec(s0, <<>>, pattern_specification, dir, body,
                                                        "user_pattern_svg", with_printable, ext)
                    ELSE generate_svg_from_design_params(s0, <<>>, design_params, dir, body,
                                                         with_printable, ext.design)]

\* GarmentSVGService.cleanup_session(session_id)
svg_service_cleanup_session(store, session_id) ==
    IF store[session_dir(session_id)].exists
    THEN [raised |-> FALSE, store |-> [store EXCEPT ![session_dir(session_id)] = NoDir]]
    ELSE [raised |-> FALSE, store |-> store]

\* what a 2D generation handler answers; `fail` is the call of the
\* raw-specification path that raised
SvgOutcome(op, design, pattern, body, with_printable, status, uuid, fail, r) ==
    [op |-> op, design |-> design, pattern |-> pattern, body |-> body, arg |-> NoSession,
     printable |-> with_printable, clean |-> ~r.raised, existed |-> FALSE,
     trace |-> r.trace, fail |-> fail,
     status |-> status, uuid |-> uuid,
     session_id |-> IF status = 200 THEN uuid ELSE NoSession,
     output_dir |-> r.pattern_folder, path |-> r.svg_file, png |-> r.png_file,
     pdf |-> r.pdf_file]

\* variant: the validation tests `is None`, as the service does
generate_svg_valid_is_none(pattern, design) == ~(IsNone(pattern) /\ IsNone(design))

\* the validation of POST /generate_svg passes:
\* not (not request.pattern_specification and not request.design_params)
generate_svg_valid(pattern, design) == Truthy(pattern) \/ Truthy(design)

\* the options that differ for a request: a request that fails the
\* validation is answered before they are read
SvgOptionsFor(pattern, design) ==
    IF generate_svg_valid(pattern, design)
    THEN [body : BodyValues, with_printable : BOOLEAN]
    ELSE {[body |-> "None", with_printable |-> FALSE]}

\* the body of POST /generate_svg: validation, uuid4, the service call.
\* `fresh` is the identifier uuid4 returns, NoSession when it is not called.
generate_svg_handler(self, store, pattern, design, body, with_printable, fresh, ext) ==
    IF ~generate_svg_valid(pattern, design)
    THEN [self |-> self, store |-> store,
          out |-> SvgOutcome("generate_svg", design, pattern, body, with_printable,
                             except_Exception(400), NoSession, "none",
                             RaisedSvg(store, <<>>))]
    ELSE LET call == service_generate_svg(self, store, design, pattern, fresh, body,
                                          with_printable, ext)
             r == call.r
         IN  [self |-> call.self, store |-> r.store,
              out |-> SvgOutcome("generate_svg", design, pattern, body, with_printable,
                                 IF r.raised THEN except_Exception(500) ELSE 200, fresh,
                                 IF r.trace # <<>> /\ r.trace[1] = "raw" THEN ext.raw ELSE "none",
                                 r)]

\* ------------------------------------------------ batch driver (__main__)
\* The dataset of one run: its items (pattern specifications), the body
\* types it is simulated on, the simulation-configuration keys.
MaxItems == 2
Items == 1..MaxItems
BodyTypes == {"default_body", "random_body"}
ConfigKeys == {"resolution", "material"}

\* variant: one folder whatever the flag
body_type_random(command_args) == "random_body"

\* 'default_body' if command_args.default_body else 'random_body'
body_type(command_args) ==
    IF command_args.default_body THEN "default_body" ELSE "random_body"

\* the command lines of get_command_args: --minibatch is an item count or
\* absent (default=None, written 0 here); --rewrite_config is read only
\* when --config names a file
None == "None"
NoMinibatch == 0
CommandArgs ==
    {a \in [default_body : BOOLEAN, minibatch : {NoMinibatch} \cup Items, caching : BOOLEAN,
            config : {None, "template"}, rewrite_config : BOOLEAN] :
        a.config = None => ~a.rewrite_config}

\* dataset_properties.yaml of the dataset: no 'frozen' key, the folder it
\* was generated in, one configuration value set and one absent, nothing
\* processed
init_dataset_file ==
    [frozen |-> "absent", data_folder |-> "generated", sys_info |-> FALSE,
     config |-> [k \in ConfigKeys |-> IF k = "resolution" THEN "own" ELSE "absent"],
     processed |-> {}, fails |-> {}]

\* a file that does not exist
NoFile == [exists |-> FALSE, props |-> init_dataset_file]

\* variant: the file is copied whether it exists or not
copy_always(file) == [exists |-> TRUE, props |-> init_dataset_file]

\* if not dataset_file_body.exists(): shutil.copy(init_dataset_file, dataset_file_body)
copy_if_absent(file) ==
    IF file.exists THEN file ELSE [exists |-> TRUE, props |-> init_dataset_file]

\* variant: the flag is not looked at
is_frozen_never(props) == FALSE

\* 'frozen' in props and props['frozen']
is_frozen(props) == props.frozen # "absent" /\ props.frozen = "true"

\* props.set_basic(data_folder=dataset)
set_basic(props, dataset) == [props EXCEPT !.data_folder = dataset]

\* props.merge(sim_configs_path / command_args.config, re_write=...): a value
\* of the template replaces an absent one, and a present one when re_write
merge(props, re_write) ==
    [props EXCEPT !.config = [k \in ConfigKeys |->
        IF re_write \/ @[k] = "absent" THEN "template" ELSE @[k]]]

\* variant: the template always overwrites
merge_config_rewrite(props, command_args) ==
    IF command_args.config # None THEN merge(props, TRUE) ELSE props

\* `if command_args.config is not None: props.merge(...)`
merge_config(props, command_args) ==
    IF command_args.config # None THEN merge(props, command_args.rewrite_config) ELSE props

\* what the simulator does with the items of a pass: the result of each
\* item it runs, and whether the pass went through all of its items
PassExt == [result : [Items -> {"ok", "fail"}], complete : BOOLEAN]

\* the first n items of a set, in dataset order
FirstN(set, n) == {i \in set : Cardinality({j \in set : j < i}) < n}

\* one pass over `chosen`: an item whose artifacts exist is skipped when
\* caching, every other one is simulated and its artifacts are written;
\* the items gone through are recorded as processed, the failed ones as fails
run_items(props, out, chosen, caching, ext) ==
    LET skipped == {i \in chosen : caching /\ out[i] = "ok"}
        run == chosen \ skipped
    IN  [props |-> [props EXCEPT !.processed = @ \cup chosen,
                                 !.fails = (@ \ {i \in run : ext.result[i] = "ok"})
                                           \cup {i \in run : ext.result[i] = "fail"}],
         out |-> [i \in Items |-> IF i \in run THEN ext.result[i] ELSE out[i]],
         ran |-> run,
         failed |-> {i \in run : ext.result[i] = "fail"}]

\* the items the run state does not record as processed (force_restart=False)
unprocessed(props) == Items \ props.processed

\* sim.batch_sim(datapath, output_path, props, num_samples=minibatch, caching=...):
\* the unprocessed items, at most num_samples of them; finished when none
\* is left unprocessed
batch_sim(props, out, num_samples, caching, ext) ==
    LET todo == unprocessed(props)
        chosen == IF num_samples = NoMinibatch THEN todo ELSE FirstN(todo, num_samples)
        r == run_items(props, out, chosen, caching, ext)
    IN  [props |-> r.props, out |-> r.out, ran |-> r.ran, failed |-> r.failed,
         finished |-> Items \subseteq r.props.processed]

\* sim.resim_fails(datapath, output_path, props, caching=...): every item
\* recorded as failed once more, whatever the minibatch size; finished when
\* the pass went through all of them
resim_fails(props, out, caching, ext) ==
    LET failed == props.fails
        chosen == IF ext.complete \/ failed = {} THEN failed
                  ELSE FirstN(failed, Cardinality(failed) - 1)
        r == run_items(props, out, chosen, caching, ext)
    IN  [props |-> r.props, out |-> r.out, ran |-> r.ran, failed |-> r.failed,
         finished |-> ext.complete \/ failed = {}]

\* the outcomes of a pass that differ: the result of an item matters only
\* if the pass may run it
PassExtFor(items, partial) ==
    {e \in PassExt :
        /\ \A i \in Items \ items : e.result[i] = "ok"
        /\ (~partial \/ items = {}) => e.complete}

\* props.add_sys_info()
add_sys_info(props) == [props EXCEPT !.sys_info = TRUE]

\* props.serialize(dataset_file)
serialize_props(props) == [exists |-> TRUE, props |-> props]

\* gather_renders(output_path): the renders of the output folder copied
\* into output_path / 'renders'
gather_renders(out) == {i \in Items : out[i] # "none"}

\* variant: the exit is always a success
sys_exit_zero(finished) == 0

\* `if finished: sys.exit(0) else: sys.exit(1)`
sys_exit(finished) == IF finished THEN 0 ELSE 1

\* variant: the resim pass follows the main pass whatever it reported
after_main_always(finished) == "resim"

\* `if finished: finished = sim.resim_fails(...)`: where __main__ goes after
\* the main pass
after_main(finished) == IF finished THEN "resim" ELSE "save"

\* variant: the flag is not handed on
pass_caching_off(command_args, pass) == FALSE

\* caching=command_args.caching, in the call of either pass
pass_caching(command_args, pass) == command_args.caching

\* what __main__ notes of a pass: the items it simulated, those of them
\* that failed, what it reported
PassRecord(name, r) ==
    [name |-> name, finished |-> r.finished, ran |-> r.ran, failed |-> r.failed]

\* the process of one invocation: pc is its position in __main__
\* ("idle": none started yet; "main", "resim", "save", "exit": about to run
\* that part; "exited"), passes the passes it invoked with what they
\* reported, exit_code the code it exited with (-1 while it runs)
Process(pc, command_args, props, finished, passes, persisted, exit_code) ==
    [pc |-> pc, command_args |-> command_args, props |-> props, finished |-> finished,
     passes |-> passes, persisted |-> persisted, exit_code |-> exit_code]

NoArgs ==
    [default_body |-> FALSE, minibatch |-> NoMinibatch, caching |-> FALSE, config |-> None,
     rewrite_config |-> FALSE]

\* ------------------------------------------------ 3D viewer (render_3d_web)
\* The file paths a load_garment call may name: one that does not exist, a
\* file that is no GLB, two GLB files (Path.suffix of the second is
\* '.GLB'), and the default garment of the renderer.
ViewerPaths == {"missing.glb", "notes.txt", "a.glb", "b.GLB"}
default_garment == "default.glb"

\* garment_path.exists()
path_exists(file_path) == file_path # "missing.glb"

\* garment_path.suffix.lower()
suffix_lower(file_path) == IF file_path = "notes.txt" THEN ".txt" ELSE ".glb"

\* str(self.local_path_3d / 'uploaded_garment.glb')
target_path == "tmp_3d_render/garm_3d/uploaded_garment.glb"

\* Simple3DRenderer.__init__ and setup_ui: no garment, the body shown.
\* ui_garment_3d is None, "attached" (a gltf object of the scene) or
\* "deleted" (a reference to an object that was deleted from the scene);
\* body_shown is the visibility of ui_body_3d, switch the value of
\* ui_body_switch.
Simple3DRenderer_init ==
    [current_garment |-> None, body_visible |-> TRUE, ui_garment_3d |-> None,
     body_shown |-> TRUE, switch |-> TRUE]

\* the calls of a viewer handler that may raise ("none": no call raises)
LoadFails == {"none", "copy", "delete", "gltf"}
ToggleFails == {"none", "visible", "set_value"}
ResetFails == {"none", "delete", "visible", "set_value"}

\* what a viewer handler leaves: the renderer, the stored upload
\* (uploaded_garment.glb under local_path_3d: "absent" or the file it was
\* copied from) and the status of the response
ViewerResult(self, uploaded, status) == [self |-> self, uploaded |-> uploaded, status |-> status]

\* self.ui_garment_3d after `if self.ui_garment_3d is not None:
\* self.ui_garment_3d.delete()`: the attribute still names the object
after_delete(ui_garment_3d) == IF ui_garment_3d = None THEN None ELSE "deleted"

\* the body of load_garment_endpoint(file_path)
load_garment(self, uploaded, file_path, fail) ==
    IF ~path_exists(file_path) THEN ViewerResult(self, uploaded, except_Exception(404))
    ELSE IF suffix_lower(file_path) # ".glb" THEN ViewerResult(self, uploaded, except_Exception(400))
    ELSE IF fail = "copy" THEN ViewerResult(self, uploaded, 500)
    ELSE IF fail = "delete" /\ self.ui_garment_3d # None THEN ViewerResult(self, file_path, 500)
    ELSE IF fail = "gltf"
    THEN ViewerResult([self EXCEPT !.ui_garment_3d = after_delete(@)], file_path, 500)
    ELSE ViewerResult([self EXCEPT !.ui_garment_3d = "attached", !.current_garment = target_path],
                      file_path, 200)

\* Simple3DRenderer.load_default_garment: nothing is done when the default
\* garment is not on disk
load_default_garment(self, uploaded, on_disk) ==
    IF on_disk
    THEN ViewerResult([self EXCEPT !.ui_garment_3d = "attached", !.current_garment = target_path],
                      default_garment, 200)
    ELSE ViewerResult(self, uploaded, 200)

\* the body of toggle_body_endpoint(visible): visible is "None", "true" or
\* "false"; set_value of the switch runs its on_change handler, which
\* shows or hides the body once more
toggle_body(self, uploaded, visible, fail) ==
    LET flag == IF visible = None THEN ~self.body_visible ELSE visible = "true"
        set == [self EXCEPT !.body_visible = flag]
    IN  IF fail = "visible" THEN ViewerResult(set, uploaded, 500)
        ELSE IF fail = "set_value"
        THEN ViewerResult([set EXCEPT !.body_shown = flag], uploaded, 500)
        ELSE ViewerResult([set EXCEPT !.body_shown = flag, !.switch = flag], uploaded, 200)

\* variant: the garment path is kept over a reset
reset_keep_garment(self, uploaded, fail) ==
    ViewerResult([self EXCEPT !.ui_garment_3d = None, !.body_visible = TRUE,
                              !.body_shown = TRUE, !.switch = TRUE], uploaded, 200)

\* the body of reset_viewer()
reset(self, uploaded, fail) ==
    LET cleared == [self EXCEPT !.ui_garment_3d = None]
        shown == [cleared EXCEPT !.body_visible = TRUE]
    IN  IF fail = "delete" /\ self.ui_garment_3d # None THEN ViewerResult(self, uploaded, 500)
        ELSE IF fail = "visible" THEN ViewerResult(shown, uploaded, 500)
        ELSE IF fail = "set_value"
        THEN ViewerResult([shown EXCEPT !.body_shown = TRUE], uploaded, 500)
        ELSE ViewerResult([shown EXCEPT !.body_shown = TRUE, !.switch = TRUE,
                                        !.current_garment = None], uploaded, 200)

\* the viewer: the renderer, the stored upload, and of the handler that
\* ran last its name, its argument, its status and, for get_state, the
\* body_visible and current_garment it reported
Viewer(self, uploaded, op, arg, status, body_visible, current_garment) ==
    [self |-> self, uploaded |-> uploaded, op |-> op, arg |-> arg, status |-> status,
     body_visible |-> body_visible, current_garment |-> current_garment]

\* no page of the viewer was opened
NoViewer == Viewer(Simple3DRenderer_init, "absent", "start", None, 200, TRUE, None)

VARIABLES
    store3d,     \* ./tmp_3d_service: session id -> its directory
    storeSvg,    \* ./tmp_svg_service: session id -> its directory
    service,     \* the GarmentTo3DService object of the process
    svg_service, \* the GarmentSVGService object of the process
    issued,      \* the identifiers uuid4 has returned so far
    delivered,   \* session id -> the delivery path its generate3d response gave
    last,        \* the handler that ran last: its request and its response
    dataset_files, \* body type -> its run-state file dataset_properties_<body type>.yaml
    output_paths,  \* body type -> its output folder: the artifacts of each item, the renders
    proc,          \* the batch process: the invocation of __main__ that ran last
    rival,         \* a second batch process, started by another caller
    overlap,       \* whether a batch process was started while the other one ran
    viewer         \* the 3D viewer: its renderer object, the stored upload, its last response

service_vars == <<store3d, storeSvg, service, svg_service, issued, delivered, last, viewer>>

batch_vars == <<dataset_files, output_paths, proc, rival, overlap, viewer>>

vars == <<store3d, storeSvg, service, svg_service, issued, delivered, last, dataset_files, output_paths, proc, rival, overlap, viewer>>

\* the services after construction
InitServices ==
    /\ store3d = [s \in SessionIds |-> NoDir]
    /\ storeSvg = [s \in SessionIds |-> NoDir]
    /\ service = GarmentTo3DService_init
    /\ svg_service = GarmentSVGService_init
    /\ issued = {}
    /\ delivered = [s \in SessionIds |-> NoPath]
    /\ last = Outcome("start", "None", "None", "None", NoSession, 200, NoSession, NoSession, "", NoPath)
    /\ viewer = NoViewer

\* no batch process yet
InitProcess ==
    /\ output_paths = [b \in BodyTypes |-> [items |-> [i \in Items |-> "none"], renders |-> {}]]
    /\ proc = Process("idle", NoArgs, init_dataset_file, FALSE, <<>>, FALSE, -1)
    /\ rival = Process("idle", NoArgs, init_dataset_file, FALSE, <<>>, FALSE, -1)
    /\ overlap = FALSE

Init ==
    /\ InitServices
    /\ InitProcess
    /\ dataset_files = [b \in BodyTypes |-> NoFile]

\* ------------------------------------------------------------ 3D handlers
\* POST /generate3d of garment_3d_service.py: design parameters.  The
\* handler and the service pass the dictionary on without looking into it:
\* a populated one stands for every value of the required field.
legacy_generate_3d ==
    \E design \in {d \in DesignValues : Truthy(d)} :
      \E body \in BodyValuesFor({"design_params", "session_id", "body_params"}) :
      \E ext \in Ext3DFor({"design_params", "session_id", "body_params"}) :
      \E session_id \in uuid4(Ids3D, issued) :
        LET r == call_generate_3d(service, store3d, {"design_params", "session_id", "body_params"},
                                  design, session_id, body, ext)
        IN  /\ issued' = issued \cup {session_id}
            /\ store3d' = r.store
            /\ service' = r.self
            /\ delivered' = IF r.raised THEN delivered
                             ELSE [delivered EXCEPT ![session_id] = r.glb_path]
            /\ last' = Generate3DResponse("generate3d_design", design, "None", body, session_id, ext, r)
            /\ UNCHANGED <<storeSvg, svg_service, dataset_files, output_paths, proc, rival, overlap, viewer>>

\* POST /generate3d of api_garment_3d_service.py: a pattern specification
generate_3d ==
    \E pattern \in PatternValues \ {"None"} :
      \E body \in BodyValuesFor({"pattern_specification", "session_id", "body_params"}) :
      \E ext \in Ext3DFor({"pattern_specification", "session_id", "body_params"}) :
      \E session_id \in uuid4(Ids3D, issued) :
        LET r == call_generate_3d(service, store3d, {"pattern_specification", "session_id", "body_params"},
                                  pattern, session_id, body, ext)
        IN  /\ issued' = issued \cup {session_id}
            /\ store3d' = r.store
            /\ service' = r.self
            /\ delivered' = IF r.raised THEN delivered
                             ELSE [delivered EXCEPT ![session_id] = r.glb_path]
            /\ last' = Generate3DResponse("generate3d", "None", pattern, body, session_id, ext, r)
            /\ UNCHANGED <<storeSvg, svg_service, dataset_files, output_paths, proc, rival, overlap, viewer>>

\* GET /download/{session_id}: the 404 for an empty scan is raised inside the
\* try block; glb_files[0] is whichever file the scan lists first
download_glb ==
    \E session_id \in Ids3D :
      LET found == glb_files(store3d, session_id) IN
        /\ \/ /\ found = {}
              /\ last' = Outcome("download", "None", "None", "None", session_id,
                                 except_Exception(404), NoSession, NoSession, "", NoPath)
           \/ \E f \in found :
                last' = Outcome("download", "None", "None", "None", session_id,
                                200, NoSession, NoSession, "",
                                PathOf(session_dir(session_id), f))
        /\ UNCHANGED <<store3d, storeSvg, service, svg_service, issued, delivered, dataset_files, output_paths, proc, rival, overlap, viewer>>

\* DELETE /cleanup/{session_id}
cleanup_session ==
    \E session_id \in Ids3D :
      LET r == service_cleanup_session(store3d, session_id) IN
        /\ store3d' = r.store
        /\ last' = [Outcome("cleanup", "None", "None", "None", session_id,
                            IF r.raised THEN except_Exception(500) ELSE 200,
                            NoSession, NoSession, "", NoPath)
                     EXCEPT !.existed = store3d[session_dir(session_id)].exists]
        /\ UNCHANGED <<storeSvg, service, svg_service, issued, delivered, dataset_files, output_paths, proc, rival, overlap, viewer>>

Next3D ==
    \/ legacy_generate_3d
    \/ generate_3d
    \/ download_glb
    \/ cleanup_session

Spec3D == Init /\ [][Next3D]_vars

\* ------------------------------------------------------------ 2D handlers
\* POST /generate_svg
generate_svg ==
    \E pattern \in PatternValues, design \in DesignValues :
      \E opt \in SvgOptionsFor(pattern, design) :
      \E ext \in ExtSvgFor(pattern) :
      \E fresh \in uuid4(IdsSvg, issued) \cup {NoSession} :
        /\ (fresh = NoSession) = ~generate_svg_valid(pattern, design)
        /\ LET h == generate_svg_handler(svg_service, storeSvg, pattern, design, opt.body,
                                         opt.with_printable, fresh, ext)
           IN  /\ storeSvg' = h.store
               /\ svg_service' = h.self
               /\ last' = h.out
               /\ issued' = issued \cup ({h.out.uuid} \ {NoSession})
               /\ UNCHANGED <<store3d, service, delivered, dataset_files, output_paths, proc, rival, overlap, viewer>>

\* POST /generate_pattern_svg: the request model of /generate3d
generate_pattern_svg ==
    \E pattern \in PatternValues \ {"None"}, body \in BodyValues :
      \E ext \in ExtSvgFor(pattern) :
      \E session_id \in uuid4(IdsSvg, issued) :
        LET call == service_generate_svg(svg_service, storeSvg, "None", pattern, session_id,
                                         body, TRUE, ext)
            r == call.r
        IN  /\ storeSvg' = r.store
            /\ svg_service' = call.self
            /\ last' = SvgOutcome("generate_pattern_svg", "None", pattern, body, TRUE,
                                  IF r.raised THEN except_Exception(500) ELSE 200, session_id,
                                  ext.raw, r)
            /\ issued' = issued \cup {session_id}
            /\ UNCHANGED <<store3d, service, delivered, dataset_files, output_paths, proc, rival, overlap, viewer>>

\* DELETE /cleanup_svg/{session_id}
cleanup_svg_session ==
    \E session_id \in IdsSvg :
      LET r == svg_service_cleanup_session(storeSvg, session_id) IN
        /\ storeSvg' = r.store
        /\ last' = [Outcome("cleanup_svg", "None", "None", "None", session_id,
                            IF r.raised THEN except_Exception(500) ELSE 200,
                            NoSession, NoSession, "", NoPath)
                     EXCEPT !.existed = storeSvg[session_dir(session_id)].exists]
        /\ UNCHANGED <<store3d, service, svg_service, issued, delivered, dataset_files, output_paths, proc, rival, overlap, viewer>>

\* session_dir.rglob("*.svg") filtered by
\* '_pattern.svg' in f.name and '_print_pattern.svg' not in f.name
pattern_svg_files(store, session_id) ==
    {f \in store[session_dir(session_id)].files : f.ext = "svg" /\ f.kind = "_pattern"}

\* session_dir.rglob("*.png") filtered by
\* '_pattern.png' in f.name and '_3d_pattern.png' not in f.name
pattern_png_files(store, session_id) ==
    {f \in store[session_dir(session_id)].files : f.ext = "png" /\ f.kind = "_pattern"}

\* the body of a 2D download handler: the 404 for an empty list is raised
\* inside the try block; files[0] is whichever file the scan lists first
download_2d(op, session_id, found) ==
    /\ \/ /\ found = {}
          /\ last' = Outcome(op, "None", "None", "None", session_id,
                             except_Exception(404), NoSession, NoSession, "", NoPath)
       \/ \E f \in found :
            last' = Outcome(op, "None", "None", "None", session_id,
                            200, NoSession, NoSession, "",
                            PathOf(session_dir(session_id), f))
    /\ UNCHANGED <<store3d, storeSvg, service, svg_service, issued, delivered, dataset_files, output_paths, proc, rival, overlap, viewer>>

\* GET /download_svg/{session_id}
download_svg ==
    \E session_id \in IdsSvg :
      download_2d("download_svg", session_id, pattern_svg_files(storeSvg, session_id))

\* GET /download_png/{session_id}
download_png ==
    \E session_id \in IdsSvg :
      download_2d("download_png", session_id, pattern_png_files(storeSvg, session_id))

NextSvg ==
    \/ generate_svg
    \/ generate_pattern_svg
    \/ cleanup_svg_session
    \/ download_svg
    \/ download_png

SpecSvg == Init /\ [][NextSvg]_vars

\* ------------------------------------------------- either of the services
\* The handlers of both applications that write to a store, a behaviour
\* following the requests to one of them: the two services share no state.
Ops3D == {"start", "generate3d_design", "generate3d", "cleanup"}
OpsSvg == {"start", "generate_svg", "generate_pattern_svg", "cleanup_svg"}

NextEither ==
    \/ last.op \in Ops3D /\ legacy_generate_3d
    \/ last.op \in Ops3D /\ generate_3d
    \/ last.op \in Ops3D /\ cleanup_session
    \/ last.op \in OpsSvg /\ generate_svg
    \/ last.op \in OpsSvg /\ generate_pattern_svg
    \/ last.op \in OpsSvg /\ cleanup_svg_session

SpecEither == Init /\ [][NextEither]_vars

\* --------------------------------------------- stores found at start-up
\* The stores are directories on disk and outlive the process: a process
\* that starts may find session directories of earlier runs in either
\* store, under any identifier, the same one in both included.
FoundDir3D ==
    LET sid == CHOOSE s \in SessionIds : TRUE
        r == service_generate_3d(GarmentTo3DService_init, [s \in SessionIds |-> NoDir], "D1", sid,
                                 "None", [fail |-> "none", mesh |-> "converged", stats |-> TRUE])
    IN  r.store[session_dir(sid)]

FoundDirSvg ==
    LET sid == CHOOSE s \in SessionIds : TRUE
        call == service_generate_svg(GarmentSVGService_init, [s \in SessionIds |-> NoDir], "D1",
                                     "None", sid, "None", FALSE,
                                     [raw |-> "none", design |-> "none"])
    IN  call.r.store[session_dir(sid)]

InitFound ==
    /\ store3d \in [SessionIds -> {NoDir, FoundDir3D}]
    /\ storeSvg \in [SessionIds -> {NoDir, FoundDirSvg}]
    /\ service = GarmentTo3DService_init
    /\ svg_service = GarmentSVGService_init
    /\ issued = {}
    /\ delivered = [s \in SessionIds |-> NoPath]
    /\ last = Outcome("start", "None", "None", "None", NoSession, 200, NoSession, NoSession, "", NoPath)
    /\ viewer = NoViewer
    /\ InitProcess
    /\ dataset_files = [b \in BodyTypes |-> NoFile]

\* the handlers that take a session identifier from the URL
NextFound ==
    \/ cleanup_session
    \/ cleanup_svg_session
    \/ download_glb
    \/ download_svg
    \/ download_png

SpecFound == InitFound /\ [][NextFound]_vars

\* ------------------------------------------------------ the first request
\* The generation requests of both services on the process as it starts:
\* what one request does, before any session exists.
NextRequest ==
    \/ issued = {} /\ legacy_generate_3d
    \/ issued = {} /\ generate_3d
    \/ issued = {} /\ generate_svg
    \/ issued = {} /\ generate_pattern_svg

SpecRequest == Init /\ [][NextRequest]_vars

\* ------------------------------------------- calls of the service methods
\* A caller that holds a service object calls its generation method with
\* a session identifier of its own choice, the same one call after call.
\* The two services share nothing, so a behaviour follows the calls on one
\* of them; the calls name populated dictionaries or none and no body
\* measurements.
DirectId(pool) == uuid4(pool, {})

direct_generate_3d ==
    \E design \in {d \in DesignValues : Truthy(d)}, body \in {"None"} :
      \E ext \in Ext3D, session_id \in DirectId(Ids3D) :
        LET r == service_generate_3d(service, store3d, design, session_id, body, ext)
        IN  /\ \A s \in SessionIds : ~storeSvg[s].exists
            /\ store3d' = r.store
            /\ service' = r.self
            /\ last' = [Generate3DResponse("direct_generate_3d", design, "None", body,
                                           session_id, ext, r)
                          EXCEPT !.existed = store3d[session_dir(session_id)].exists]
            /\ UNCHANGED <<storeSvg, svg_service, issued, delivered, dataset_files, output_paths, proc, rival, overlap, viewer>>

direct_generate_svg ==
    \E pattern \in PatternValues \ {"Empty"}, design \in DesignValues \ {"Empty"}, body \in {"None"} :
      \E with_printable \in BOOLEAN, ext \in ExtSvgFor(pattern), session_id \in DirectId(IdsSvg) :
        LET call == service_generate_svg(svg_service, storeSvg, design, pattern, session_id,
                                         body, with_printable, ext)
            r == call.r
        IN  /\ ~(IsNone(pattern) /\ IsNone(design))
            /\ \A s \in SessionIds : ~store3d[s].exists
            /\ storeSvg' = r.store
            /\ svg_service' = call.self
            /\ last' = [SvgOutcome("direct_generate_svg", design, pattern, body, with_printable,
                                   IF r.raised THEN 500 ELSE 200, session_id, ext.raw, r)
                          EXCEPT !.existed = storeSvg[session_dir(session_id)].exists]
            /\ UNCHANGED <<store3d, service, issued, delivered, dataset_files, output_paths, proc, rival, overlap, viewer>>

NextDirect ==
    \/ direct_generate_3d
    \/ direct_generate_svg

SpecDirect == Init /\ [][NextDirect]_vars

\* ----------------------------------------------------------- batch driver
\* the run-state files the first invocation may find: none, or the one
\* of a dataset that was frozen
RunStateFiles ==
    {NoFile, [exists |-> TRUE, props |-> [init_dataset_file EXCEPT !.frozen = "true"]]}

\* an output folder with nothing in it
NoFolder == [items |-> [i \in Items |-> "none"], renders |-> {}]

\* what the first invocation may find for a body type: nothing; the
\* run-state file of a frozen dataset; or what an invocation that was
\* killed in its main pass left, the file as it was created and the
\* artifacts of the first item
RunStates ==
    {[file |-> f, folder |-> NoFolder] : f \in RunStateFiles}
    \cup {[file |-> copy_if_absent(NoFile),
            folder |-> [NoFolder EXCEPT !.items[1] = "ok"]]}

InitBatch ==
    /\ InitServices
    /\ proc = Process("idle", NoArgs, init_dataset_file, FALSE, <<>>, FALSE, -1)
    /\ rival = Process("idle", NoArgs, init_dataset_file, FALSE, <<>>, FALSE, -1)
    /\ overlap = FALSE
    /\ \E found \in [BodyTypes -> RunStates] :
         /\ dataset_files = [b \in BodyTypes |-> found[b].file]
         /\ output_paths = [b \in BodyTypes |-> found[b].folder]

\* The statements of __main__, for a process p that becomes q.
\* From the command line to the main loop: the run-state file is made if
\* absent and loaded; a frozen dataset ends the process there
load_run_state(p, q, command_args) ==
    LET b == body_type(command_args)
        file == copy_if_absent(dataset_files[b])
        props == file.props
    IN  /\ dataset_files' = [dataset_files EXCEPT ![b] = file]
        /\ q = IF is_frozen(props)
               THEN Process("exited", command_args, props, FALSE, <<>>, FALSE, 0)
               ELSE Process("main", command_args,
                            merge_config(set_basic(props, "dataset"), command_args),
                            FALSE, <<>>, FALSE, -1)
        /\ UNCHANGED <<output_paths, service_vars>>

\* finished = sim.batch_sim(...)
run_batch_sim(p, q) ==
    /\ p.pc = "main"
    /\ LET b == body_type(p.command_args)
           todo == unprocessed(p.props)
           chosen == IF p.command_args.minibatch = NoMinibatch THEN todo
                     ELSE FirstN(todo, p.command_args.minibatch)
       IN  \E ext \in PassExtFor(chosen, FALSE) :
             LET r == batch_sim(p.props, output_paths[b].items, p.command_args.minibatch,
                                pass_caching(p.command_args, "main"), ext)
             IN  /\ output_paths' = [output_paths EXCEPT ![b].items = r.out]
                 /\ q = [p EXCEPT !.props = r.props,
                                  !.finished = r.finished,
                                  !.passes = Append(@, PassRecord("main", r)),
                                  !.pc = after_main(r.finished)]
                 /\ UNCHANGED <<dataset_files, service_vars>>

\* `if finished: finished = sim.resim_fails(...)`
run_resim_fails(p, q) ==
    /\ p.pc = "resim"
    /\ LET b == body_type(p.command_args)
       IN  \E ext \in PassExtFor(p.props.fails, TRUE) :
             LET r == resim_fails(p.props, output_paths[b].items,
                                  pass_caching(p.command_args, "resim"), ext)
             IN  /\ output_paths' = [output_paths EXCEPT ![b].items = r.out]
                 /\ q = [p EXCEPT !.props = r.props,
                                  !.finished = r.finished,
                                  !.passes = Append(@, PassRecord("resim", r)),
                                  !.pc = "save"]
                 /\ UNCHANGED <<dataset_files, service_vars>>

\* props.add_sys_info(); props.serialize(dataset_file); gather_renders(output_path)
save_run_state(p, q) ==
    /\ p.pc = "save"
    /\ LET b == body_type(p.command_args)
           props == add_sys_info(p.props)
       IN  /\ dataset_files' = [dataset_files EXCEPT ![b] = serialize_props(props)]
           /\ output_paths' = [output_paths EXCEPT ![b].renders = gather_renders(output_paths[b].items)]
           /\ q = [p EXCEPT !.props = props, !.persisted = TRUE, !.pc = "exit"]
           /\ UNCHANGED service_vars

\* `if finished: sys.exit(0) else: sys.exit(1)`
fin(p, q) ==
    /\ p.pc = "exit"
    /\ q = [p EXCEPT !.pc = "exited", !.exit_code = sys_exit(p.finished)]
    /\ UNCHANGED <<dataset_files, output_paths, service_vars>>

\* One caller, one invocation after the other.  An invocation opens the
\* files of its own body type only, so the runs of the two body types do
\* not meet: a behaviour follows the invocations on one body type, the
\* files of the other being any they may be.
batch_start ==
    /\ proc.pc \in {"idle", "exited"}
    /\ \E command_args \in CommandArgs :
         /\ proc.pc = "exited" => body_type(command_args) = body_type(proc.command_args)
         /\ load_run_state(proc, proc', command_args)
    /\ UNCHANGED <<rival, overlap>>

main_pass == run_batch_sim(proc, proc') /\ UNCHANGED <<rival, overlap>>

resim_pass == run_resim_fails(proc, proc') /\ UNCHANGED <<rival, overlap>>

persist == save_run_state(proc, proc') /\ UNCHANGED <<rival, overlap>>

exit == fin(proc, proc') /\ UNCHANGED <<rival, overlap>>

NextBatch ==
    \/ batch_start
    \/ main_pass
    \/ resim_pass
    \/ persist
    \/ exit

SpecBatch == InitBatch /\ [][NextBatch]_vars

\* ------------------------------------------------ repeated invocations
\* One caller repeats the invocation on the random-body run of a dataset,
\* without a configuration template, with any minibatch size and caching
\* on or off.
ResumeArgs == {a \in CommandArgs : ~a.default_body /\ a.config = None}

resume_start ==
    /\ proc.pc \in {"idle", "exited"}
    /\ \E command_args \in ResumeArgs : load_run_state(proc, proc', command_args)
    /\ UNCHANGED <<rival, overlap>>

NextResume ==
    \/ resume_start
    \/ main_pass
    \/ resim_pass
    \/ persist
    \/ exit

\* ------------------------------------------- runs of the two body types
\* One caller runs the dataset on either body type, one invocation after
\* the other, in any order, without a configuration template or caching.
KeyedArgs == {a \in CommandArgs : a.config = None /\ ~a.caching}

keyed_start ==
    /\ proc.pc \in {"idle", "exited"}
    /\ \E command_args \in KeyedArgs : load_run_state(proc, proc', command_args)
    /\ UNCHANGED <<rival, overlap>>

NextKeyed ==
    \/ keyed_start
    \/ main_pass
    \/ resim_pass
    \/ persist
    \/ exit

SpecKeyed == InitBatch /\ [][NextKeyed]_vars

\* the caller repeats the invocation for as long as it is asked to, and a
\* process that has started goes on to its next statement
LiveBatch == InitBatch /\ [][NextResume]_vars /\ WF_vars(NextResume)

\* ------------------------------------------------- two batch processes
\* Two callers start one invocation each on the same dataset and body
\* type, at any time: the statements of the two processes interleave.
\* The command lines differ in the minibatch size.
RaceArgs ==
    {a \in CommandArgs : ~a.default_body /\ a.config = None /\ ~a.caching}

Running(p) == p.pc \notin {"idle", "exited"}

\* a statement of the invocation p, the other process being `other`
invocation(p, q, other) ==
    \/ /\ p.pc = "idle"
       /\ \E command_args \in RaceArgs : load_run_state(p, q, command_args)
       /\ overlap' = (overlap \/ Running(other))
    \/ /\ \/ run_batch_sim(p, q)
          \/ run_resim_fails(p, q)
          \/ save_run_state(p, q)
          \/ fin(p, q)
       /\ UNCHANGED overlap

first_invocation == invocation(proc, proc', rival) /\ UNCHANGED rival

second_invocation == invocation(rival, rival', proc) /\ UNCHANGED proc

NextRace ==
    \/ first_invocation
    \/ second_invocation

SpecRace == Init /\ [][NextRace]_vars

\* ------------------------------------------------------------ 3D viewer
\* index(): the renderer is made, the interface and the endpoints are set
\* up and the default garment is loaded if it is on disk
index ==
    /\ viewer.op = "start"
    /\ \E on_disk \in BOOLEAN :
         LET r == load_default_garment(Simple3DRenderer_init, viewer.uploaded, on_disk)
         IN  viewer' = Viewer(r.self, r.uploaded, "index", None, r.status, TRUE, None)
    /\ UNCHANGED <<store3d, storeSvg, service, svg_service, issued, delivered, last, dataset_files, output_paths, proc, rival, overlap>>

\* POST /api/load_garment
load_garment_endpoint ==
    /\ viewer.op # "start"
    /\ \E file_path \in ViewerPaths, fail \in LoadFails :
         LET r == load_garment(viewer.self, viewer.uploaded, file_path, fail)
         IN  viewer' = Viewer(r.self, r.uploaded, "load_garment", file_path, r.status, TRUE, None)
    /\ UNCHANGED <<store3d, storeSvg, service, svg_service, issued, delivered, last, dataset_files, output_paths, proc, rival, overlap>>

\* POST /api/toggle_body
toggle_body_endpoint ==
    /\ viewer.op # "start"
    /\ \E visible \in {None, "true", "false"}, fail \in ToggleFails :
         LET r == toggle_body(viewer.self, viewer.uploaded, visible, fail)
         IN  viewer' = Viewer(r.self, r.uploaded, "toggle_body", visible, r.status,
                              r.self.body_visible, None)
    /\ UNCHANGED <<store3d, storeSvg, service, svg_service, issued, delivered, last, dataset_files, output_paths, proc, rival, overlap>>

\* GET /api/state
get_state ==
    /\ viewer.op # "start"
    /\ viewer' = Viewer(viewer.self, viewer.uploaded, "state", None, 200,
                        viewer.self.body_visible, viewer.self.current_garment)
    /\ UNCHANGED <<store3d, storeSvg, service, svg_service, issued, delivered, last, dataset_files, output_paths, proc, rival, overlap>>

\* POST /api/reset
reset_viewer ==
    /\ viewer.op # "start"
    /\ \E fail \in ResetFails :
         LET r == reset(viewer.self, viewer.uploaded, fail)
         IN  viewer' = Viewer(r.self, r.uploaded, "reset", None, r.status, TRUE, None)
    /\ UNCHANGED <<store3d, storeSvg, service, svg_service, issued, delivered, last, dataset_files, output_paths, proc, rival, overlap>>

NextViewer ==
    \/ index
    \/ load_garment_endpoint
    \/ toggle_body_endpoint
    \/ get_state
    \/ reset_viewer

SpecViewer == Init /\ [][NextViewer]_vars

Next == Next3D \/ NextSvg \/ NextBatch \/ NextRace \/ NextDirect \/ NextViewer

Spec == Init /\ [][Next]_vars

\* ------------------------------------------------------------ properties
GenerationOps3D == {"generate3d_design", "generate3d"}

\* the file of the 3D store a response path names, if there is one
FileAt(store, path) ==
    {f \in store[path.sid].files : PathOf(path.sid, f) = path}

\* C1: a generate3D request that returns successfully returns a delivery
\* path naming a file that exists under the request's own session
\* directory and is not empty.
C1_DeliveryPathExists ==
    (last.op \in GenerationOps3D /\ last.status = 200) =>
        /\ last.session_id = last.uuid
        /\ last.path.sid = session_dir(last.session_id)
        /\ last.path.ext = "glb"
        /\ FileAt(store3d, last.path) # {}
        /\ \A f \in FileAt(store3d, last.path) : Len(f.data) > 0

C1_Witness ==
    /\ last.op = "generate3d_design"
    /\ last.design = "D1"
    /\ last.status = 200
    /\ FileAt(store3d, last.path) # {}

\* C2: a /generate3d request of the API service that carries a pattern
\* specification runs the pipeline: when no collaborator raises, it answers
\* 200 with a session id, a GLB delivery path and an output directory.
C2_RawSpecGenerates3D ==
    (last.op = "generate3d" /\ Truthy(last.pattern) /\ last.clean) =>
        /\ last.status = 200
        /\ last.session_id # NoSession
        /\ last.path.ext = "glb"
        /\ last.output_dir # ""

\* C6: a download for a session directory that holds no matching file
\* answers with the not-found status, 404.
C6_DownloadNotFound ==
    (last.op = "download" /\ glb_files(store3d, last.arg) = {}) => last.status = 404

\* C7: after a cleanupSession for a session id, whether or not its
\* directory existed, the directory is absent, and a second cleanupSession
\* for the same id raises nothing and leaves the store as it is.
C7_CleanupIdempotent ==
    /\ last.op = "cleanup" =>
          /\ last.status = 200
          /\ ~store3d[session_dir(last.arg)].exists
          /\ service_cleanup_session(store3d, last.arg) = [raised |-> FALSE, store |-> store3d]
    /\ last.op = "cleanup_svg" =>
          /\ last.status = 200
          /\ ~storeSvg[session_dir(last.arg)].exists
          /\ svg_service_cleanup_session(storeSvg, last.arg) = [raised |-> FALSE, store |-> storeSvg]

C7_Witness ==
    /\ last.op = "cleanup"
    /\ last.existed
    /\ last.status = 200
    /\ ~store3d[session_dir(last.arg)].exists

\* C8: a delivered artifact stays in its session directory, unchanged, over
\* every step that is not a cleanupSession for that session, and a download
\* for that session taken in such a step succeeds.
C8_RemovedOnlyByCleanup ==
    [][\A s \in SessionIds :
         (delivered[s] # NoPath /\ FileAt(store3d, delivered[s]) # {}
             /\ ~(last'.op = "cleanup" /\ last'.arg = s)) =>
            /\ FileAt(store3d', delivered[s]) = FileAt(store3d, delivered[s])
            /\ (last'.op = "download" /\ last'.arg = s) => last'.status = 200]_vars

C8_Witness ==
    /\ last.op = "cleanup"
    /\ last.existed
    /\ \E s \in SessionIds :
         /\ s # last.arg
         /\ delivered[s] # NoPath
         /\ FileAt(store3d, delivered[s]) # {}

\* C9: a download that succeeds for session s returns exactly the delivery
\* path the generate3D response for s gave, whichever file the directory
\* scan lists first.
C9_DownloadIsDelivered ==
    (last.op = "download" /\ last.status = 200) =>
        /\ delivered[last.arg] # NoPath
        /\ last.path = delivered[last.arg]

C9_Witness ==
    /\ last.op = "download"
    /\ last.status = 200
    /\ last.path.ext = "glb"
    /\ Cardinality(store3d[session_dir(last.arg)].files) > 1

\* C10: a generation request gets an identifier no earlier request had, its
\* directory did not exist before, and the request writes under that
\* directory only: every other session directory is left as it was.
C10_SessionsDisjoint ==
    [][(last'.op \in GenerationOps3D /\ issued' # issued) =>
          /\ last'.uuid \notin issued
          /\ \A s \in SessionIds :
               s # last'.uuid => store3d'[s] = store3d[s]
          /\ \A s \in SessionIds :
               store3d'[s] # store3d[s] => ~store3d[s].exists]_vars

C10_Witness ==
    \E s, t \in SessionIds :
        /\ s # t
        /\ store3d[s].files # {}
        /\ store3d[t].files # {}
        /\ last.op = "generate3d_design"
        /\ last.uuid = t

C4_ValidationStatus ==
    (last.op = "generate_svg" /\ ~Truthy(last.pattern) /\ ~Truthy(last.design)) =>
        last.status = 400

\* C5: a generate_svg request that carries both a pattern specification and
\* design parameters is not accepted: it is never answered with success.
C5_BothInputsRejected ==
    (last.op = "generate_svg" /\ Truthy(last.pattern) /\ Truthy(last.design)) =>
        last.status # 200

\* ------------------------------------------ body profile, shared state
\* the body snapshots body.save wrote into a session directory
BodySnapshots(store, sid) == {f \in store[sid].files : f.tag = "body_measurements"}

\* the profile a snapshot records
ProfileOf(f) == f.data[2]

\* the defaults with the overrides of a request applied, measurement by
\* measurement
DefaultsWithOverrides(body_params) ==
    [m \in Measurements |->
        IF m \in DOMAIN body_dict(body_params) THEN body_dict(body_params)[m] ELSE mean_all[m]]

\* C11: for a request that supplies body overrides, the body profile the
\* pipeline used (the one it snapshots into the session) has every
\* measurement: the override value for a measurement the map names, the
\* default value for every other one.
C11_OverridesOntoDefaults ==
    (last.op \in GenerationOps3D /\ Truthy(last.body)) =>
        \A f \in BodySnapshots(store3d, session_dir(last.uuid)) :
            /\ DOMAIN ProfileOf(f) = Measurements
            /\ ProfileOf(f) = DefaultsWithOverrides(last.body)

\* C12: the default body profile of either service is, in every state, the
\* profile loaded at process start, whatever requests ran; a request
\* without overrides used exactly that profile, and a request with overrides
\* used a profile of its own.
C12_DefaultProfileReadOnly ==
    /\ service.default_body_params = mean_all
    /\ svg_service.default_body_params = mean_all
    /\ (last.op \in GenerationOps3D /\ ~Truthy(last.body)) =>
          \A f \in BodySnapshots(store3d, session_dir(last.uuid)) : ProfileOf(f) = mean_all
    /\ (last.op \in GenerationOps3D /\ Truthy(last.body)) =>
          \A f \in BodySnapshots(store3d, session_dir(last.uuid)) :
              ProfileOf(f) # service.default_body_params

C12_Witness ==
    /\ last.op = "generate3d_design"
    /\ last.body = "None"
    /\ \E f \in BodySnapshots(store3d, session_dir(last.uuid)) : ProfileOf(f) = mean_all
    /\ \E s \in Ids3D :
         /\ s # last.uuid
         /\ \E f \in BodySnapshots(store3d, s) : ProfileOf(f) # mean_all

\* the keyword arguments a 3D generation handler calls the service with, and
\* the specification it passes
KwargsOf(op) ==
    IF op = "generate3d_design" THEN {"design_params", "session_id", "body_params"}
    ELSE {"pattern_specification", "session_id", "body_params"}

SpecOf(o) == IF o.op = "generate3d_design" THEN o.design ELSE o.pattern

\* what the caller of a 3D generation reads in the response
ResponseOf(o) ==
    [status |-> o.status, session_id |-> o.session_id, glb_file_path |-> o.path,
     output_dir |-> o.output_dir]

\* C13: a generation request changes nothing but its own session directory:
\* the service object, simulation profile included, every other session
\* directory and the 2D store are the same before and after it, and its
\* response and its directory are those the same request gets from a
\* service that served no request before.
C13_NoSharedMutableState ==
    [][(last'.op \in GenerationOps3D /\ issued' # issued) =>
          /\ service'.sim_props = service.sim_props
          /\ service'.default_body_params = service.default_body_params
          /\ svg_service' = svg_service
          /\ storeSvg' = storeSvg
          /\ \A s \in SessionIds : s # last'.uuid => store3d'[s] = store3d[s]
          /\ \E ext \in Ext3D :
               LET alone == call_generate_3d(GarmentTo3DService_init,
                                             [s \in SessionIds |-> NoDir], KwargsOf(last'.op),
                                             SpecOf(last'), last'.uuid, last'.body, ext)
               IN  /\ alone.store[session_dir(last'.uuid)] = store3d'[session_dir(last'.uuid)]
                   /\ ResponseOf(Generate3DResponse(last'.op, last'.design, last'.pattern,
                                                    last'.body, last'.uuid, ext, alone))
                        = ResponseOf(last')]_vars

\* the simulated mesh run_sim left in a session directory
SimMeshes(store, sid) == {f \in store[sid].files : f.kind = "_sim" /\ f.ext = "obj"}

\* C15: a 3D request whose simulation did not converge but wrote a mesh, and
\* in which no call raised, is answered 200 with the delivery artifact built
\* from that mesh, and the answer tells the caller of the soft failure: it
\* differs from the answer to the same request with a converged simulation.
C15_SoftFailureReported ==
    [][(/\ last'.op \in GenerationOps3D
        /\ issued' # issued
        /\ last'.clean
        /\ \E f \in SimMeshes(store3d', session_dir(last'.uuid)) : f.data = <<"obj", "partial">>) =>
          /\ last'.status = 200
          /\ \E g \in FileAt(store3d', last'.path) : g.data = <<"glTF", "obj", "partial">>
          /\ LET converged == [fail |-> "none", mesh |-> "converged", stats |-> FALSE]
                 twin == call_generate_3d(service, store3d, KwargsOf(last'.op), SpecOf(last'),
                                          last'.uuid, last'.body, converged)
             IN  ResponseOf(Generate3DResponse(last'.op, last'.design, last'.pattern,
                                               last'.body, last'.uuid, converged, twin))
                    # ResponseOf(last')]_vars

\* the call of generate_3d that writes a file of the session directory
StageOf(f) ==
    IF f.ext = "glb" THEN "export"
    ELSE IF f.kind = "_sim" THEN "sim"
    ELSE IF f.kind = "_boxmesh" THEN "boxmesh"
    ELSE IF f.tag \in {"body_measurements", "design_params"} THEN "save"
    ELSE "serialize"

\* C16: within one generate3D request no call of the pipeline is made
\* twice; when a call raises the request is answered 500 with no session id
\* and no delivery path, and the session directory holds files of completed
\* earlier calls only: none of the call that raised, none of a later one.
C16_NoRetry ==
    last.op \in GenerationOps3D =>
        /\ \A i, j \in 1..Len(last.trace) : last.trace[i] = last.trace[j] => i = j
        /\ last.fail # "none" =>
             /\ last.status = 500
             /\ last.session_id = NoSession
             /\ last.path = NoPath
             /\ \A f \in store3d[session_dir(last.uuid)].files :
                  /\ StageOf(f) # last.fail
                  /\ \E i \in 1..Len(last.trace) : last.trace[i] = StageOf(f)

C16_Witness ==
    /\ last.op = "generate3d_design"
    /\ last.fail = "boxmesh"
    /\ last.status = 500
    /\ last.trace = <<"body", "assembly", "serialize", "save", "boxmesh">>
    /\ \E f \in store3d[session_dir(last.uuid)].files : StageOf(f) = "save"

\* ---------------------------------------------------------- 2D generation
SvgGenerationOps == {"generate_svg", "generate_pattern_svg"}

\* the design snapshots (design_params.yaml) of a session directory
DesignSnapshots(store, sid) == {f \in store[sid].files : f.tag = "design_params"}

\* C14: when a call of the raw-specification path raises, the service falls
\* back once: for a specification that embeds a design the parametric path
\* is entered exactly once, after the raw path, and its result is the
\* request's result (200 with the files of the embedded design, or its
\* error as 500, not retried); for one that embeds none the parametric path
\* is not entered and the error is answered as 500.
C14_FallbackOnce ==
    (last.op \in SvgGenerationOps /\ last.fail # "none") =>
        IF last.pattern = "PD"
        THEN /\ last.trace = <<"raw", "design">>
             /\ last.status \in {200, 500}
             /\ (last.status = 200) =
                   (\E f \in DesignSnapshots(storeSvg, session_dir(last.uuid)) :
                        f.folder = "SVG_Pattern" /\ f.data = <<"design", "D2">>)
             /\ last.status = 200 =>
                   /\ last.output_dir = "SVG_Pattern"
                   /\ last.path.folder = "SVG_Pattern"
                   /\ \E f \in FileAt(storeSvg, last.path) : f.data = <<"svg", "D2">>
             /\ last.status = 500 => last.session_id = NoSession /\ last.path = NoPath
        ELSE /\ last.trace = <<"raw">>
             /\ last.status = 500
             /\ last.session_id = NoSession

C14_Witness ==
    /\ last.op = "generate_svg"
    /\ last.pattern = "PD"
    /\ last.fail = "load"
    /\ last.trace = <<"raw", "design">>
    /\ last.status = 200
    /\ last.output_dir = "SVG_Pattern"

\* C17: a successful generateSVG answer carries a printable path exactly
\* when with_printable was asked for, whichever path produced the result;
\* generate_pattern_svg, which fixes with_printable to true, always carries
\* one.
C17_PrintableIffRequested ==
    (last.op \in SvgGenerationOps /\ last.status = 200) =>
        /\ (last.pdf # NoPath) = last.printable
        /\ last.op = "generate_pattern_svg" => last.pdf # NoPath

C17_Witness ==
    /\ last.op = "generate_svg"
    /\ last.status = 200
    /\ last.trace = <<"raw", "design">>
    /\ ~last.printable
    /\ last.pdf = NoPath
    /\ last.png # NoPath

\* ------------------------------------------------ batch driver properties
\* the run-state file and the output folder of the invocation in `p`
FileOf(files, p) == files[body_type(p.command_args)]

FolderOf(paths, p) == paths[body_type(p.command_args)]

\* the run-state file holds frozen=true
FrozenFile(file) == file.exists /\ file.props.frozen = "true"

\* a step that starts an invocation
Starts == proc.pc \in {"idle", "exited"} /\ proc'.pc # "idle"

\* C18: an invocation on a dataset whose run-state file has frozen=true
\* returns at once, whatever the minibatch size and the caching,
\* default-body, config and rewrite flags: it invokes neither the main
\* pass nor the resim pass, writes no artifact and no run state, and no
\* invocation is ever inside a pass while its run-state file is frozen.
C18_FrozenSkipsProcessing ==
    [][/\ (Starts /\ FrozenFile(FileOf(dataset_files, proc'))) =>
            /\ proc'.pc = "exited"
            /\ proc'.passes = <<>>
            /\ ~proc'.persisted
            /\ output_paths' = output_paths
            /\ dataset_files' = dataset_files
       /\ proc'.pc \in {"main", "resim", "save", "exit"} =>
            ~FrozenFile(FileOf(dataset_files', proc'))]_vars

C18_Witness ==
    /\ proc.pc = "exited"
    /\ FrozenFile(FileOf(dataset_files, proc))
    /\ proc.command_args.minibatch = MaxItems
    /\ proc.command_args.caching
    /\ proc.command_args.config = "template"
    /\ proc.command_args.rewrite_config
    /\ proc.passes = <<>>
    /\ FolderOf(output_paths, proc).items = [i \in Items |-> "none"]

\* the invocation went through both passes and each reported finished
BothFinished(p) ==
    /\ Len(p.passes) = 2
    /\ p.passes[1].name = "main" /\ p.passes[1].finished
    /\ p.passes[2].name = "resim" /\ p.passes[2].finished

\* C19: the exit code is 0 exactly when the dataset is fully finished; it
\* is not 0 when processing is incomplete, nor when the dataset is frozen
\* and processing was skipped.
C19_ExitCodeZeroIffFinished ==
    proc.pc = "exited" =>
        /\ FrozenFile(FileOf(dataset_files, proc)) => proc.exit_code # 0
        /\ ~FrozenFile(FileOf(dataset_files, proc)) =>
             (proc.exit_code = 0 <=>
                 BothFinished(proc) /\ Items \subseteq FileOf(dataset_files, proc).props.processed)

\* C20: an invocation on an unfrozen dataset exits with 0 only if the
\* main pass and the resim pass both reported finished; when the main
\* pass reports not finished (the resim pass is then not invoked), or the
\* resim pass does, it exits with 1 by sys.exit, and the run state it
\* holds has been written to the run-state file before.
C20_SuccessOnlyIfBothFinished ==
    (proc.pc = "exited" /\ ~FrozenFile(FileOf(dataset_files, proc))) =>
        /\ proc.passes # <<>>
        /\ proc.passes[1].name = "main"
        /\ ~proc.passes[1].finished => Len(proc.passes) = 1
        /\ proc.exit_code = 0 => BothFinished(proc)
        /\ ~BothFinished(proc) => proc.exit_code = 1
        /\ proc.persisted
        /\ FileOf(dataset_files, proc) = serialize_props(proc.props)

C20_Witness ==
    /\ proc.pc = "exited"
    /\ Len(proc.passes) = 2
    /\ proc.passes[1].finished
    /\ ~proc.passes[2].finished
    /\ proc.exit_code = 1
    /\ proc.persisted
    /\ FileOf(dataset_files, proc).props.fails # {}

\* the passes of the invocation in `p` that simulated item i
Attempts(p, i) == {k \in 1..Len(p.passes) : i \in p.passes[k].ran}

\* C21: within one invocation the resim pass runs at most once, and only
\* after the main pass reported finished; no item is simulated more than
\* twice, and an item that failed in the main pass and in the resim pass
\* is recorded as failed in the run state the invocation holds and in the
\* file it leaves.
C21_RetriedAtMostOnce ==
    /\ Len(proc.passes) <= 2
    /\ \A k \in 1..Len(proc.passes) :
         proc.passes[k].name = (IF k = 1 THEN "main" ELSE "resim")
    /\ proc.pc = "resim" => (Len(proc.passes) = 1 /\ proc.passes[1].finished)
    /\ Len(proc.passes) = 2 => proc.passes[1].finished
    /\ \A i \in Items : Cardinality(Attempts(proc, i)) <= 2
    /\ Len(proc.passes) = 2 =>
         \A i \in proc.passes[1].failed \cap proc.passes[2].failed :
            /\ Attempts(proc, i) = {1, 2}
            /\ i \in proc.props.fails
            /\ proc.pc = "exited" => i \in FileOf(dataset_files, proc).props.fails

C21_Witness ==
    /\ proc.pc = "exited"
    /\ Len(proc.passes) = 2
    /\ proc.passes[1].failed \cap proc.passes[2].failed # {}
    /\ proc.passes[1].failed \cap proc.passes[2].failed
         \subseteq FileOf(dataset_files, proc).props.fails

\* a step in which the invocation runs a pass, and what it noted of it
RunsPass == proc.pc \in {"main", "resim"} /\ Len(proc'.passes) = Len(proc.passes) + 1

LastPass(p) == p.passes[Len(p.passes)]

\* the items the pass about to run goes through
ChosenBy(p) ==
    IF p.pc = "resim" THEN p.props.fails
    ELSE IF p.command_args.minibatch = NoMinibatch THEN Items \ p.props.processed
    ELSE FirstN(Items \ p.props.processed, p.command_args.minibatch)

\* C22: in a pass of an invocation with caching, main or resim, an item
\* whose artifacts exist is not simulated, its artifacts are left as they
\* are, and if the pass goes through it, it is recorded as processed; in
\* a pass of an invocation without caching every item the pass goes
\* through is simulated.
C22_CachedItemNotRegenerated ==
    [][RunsPass =>
         \A i \in Items :
           LET before == FolderOf(output_paths, proc).items[i]
               after == FolderOf(output_paths', proc).items[i]
           IN  /\ (proc.command_args.caching /\ before = "ok") =>
                    /\ i \notin LastPass(proc').ran
                    /\ after = before
                    /\ i \in ChosenBy(proc) => i \in proc'.props.processed
               /\ (~proc.command_args.caching /\ i \in ChosenBy(proc) /\ LastPass(proc').finished) =>
                    i \in LastPass(proc').ran]_vars

C22_Witness ==
    /\ proc.pc \in {"resim", "save"}
    /\ Len(proc.passes) = 1
    /\ proc.command_args.caching
    /\ 1 \notin proc.passes[1].ran
    /\ 1 \in proc.props.processed
    /\ 1 \notin FileOf(dataset_files, proc).props.processed
    /\ FolderOf(output_paths, proc).items[1] = "ok"

\* the configuration the run state must hold after the merge of __main__
Merged(config, command_args) ==
    [k \in ConfigKeys |->
        IF command_args.config = None THEN config[k]
        ELSE IF command_args.rewrite_config THEN "template"
        ELSE IF config[k] = "absent" THEN "template" ELSE config[k]]

\* C23: an invocation on an unfrozen dataset enters the main pass, no
\* item processed yet, with the configuration of the run-state file
\* merged with the named template: without rewrite_config a value the
\* file has is kept and an absent one is the template's, with
\* rewrite_config every value is the template's, with no template named
\* the configuration is the file's; the passes do not change it and it is
\* the one written back.
C23_ConfigMerge ==
    [][/\ (Starts /\ proc'.pc = "main") =>
            /\ proc'.props.config =
                 Merged(copy_if_absent(FileOf(dataset_files, proc')).props.config, proc'.command_args)
            /\ proc'.passes = <<>>
            /\ output_paths' = output_paths
       /\ RunsPass => proc'.props.config = proc.props.config
       /\ (proc.pc = "save" /\ proc'.pc = "exit") =>
            FileOf(dataset_files', proc).props.config = proc.props.config]_vars

C23_Witness ==
    /\ proc.pc = "exited"
    /\ proc.command_args.config = "template"
    /\ ~proc.command_args.rewrite_config
    /\ proc.passes # <<>>
    /\ FileOf(dataset_files, proc).props.config["resolution"] = "own"
    /\ FileOf(dataset_files, proc).props.config["material"] = "template"

\* C24: no step deletes a run-state file; an invocation creates the file
\* of its body type from the dataset's initial properties if it does not
\* exist and leaves an existing one as it is, and starts from the
\* progress and statistics the file holds; what an unfrozen invocation
\* writes back keeps every item recorded processed, and it has written
\* its run state to the file when it exits.
C24_RunStateFileKept ==
    [][/\ \A b \in BodyTypes : dataset_files[b].exists => dataset_files'[b].exists
       /\ Starts =>
            /\ FileOf(dataset_files', proc') =
                 (IF FileOf(dataset_files, proc').exists THEN FileOf(dataset_files, proc')
                  ELSE [exists |-> TRUE, props |-> init_dataset_file])
            /\ proc'.props.processed = FileOf(dataset_files, proc').props.processed
            /\ proc'.props.fails = FileOf(dataset_files, proc').props.fails
       /\ (proc.pc = "save" /\ proc'.pc = "exit") =>
            /\ FileOf(dataset_files', proc).props = proc'.props
            /\ FileOf(dataset_files, proc).props.processed
                 \subseteq FileOf(dataset_files', proc).props.processed
       /\ (proc.pc = "exit" /\ proc'.pc = "exited") =>
            FileOf(dataset_files', proc).props = proc.props]_vars

C24_Witness ==
    /\ proc.pc = "main"
    /\ proc.passes = <<>>
    /\ proc.props.processed = {1}
    /\ proc.props.fails = {1}
    /\ FileOf(dataset_files, proc).props.sys_info

\* C30: no step changes a run-state file that holds frozen=true: the
\* flag is never cleared, and an invocation on a frozen dataset, whatever
\* its command line, writes neither the data folder, nor a merged
\* configuration, nor progress, nor system information to the file.
C30_FrozenIsTerminal ==
    [][\A b \in BodyTypes :
         FrozenFile(dataset_files[b]) => dataset_files'[b] = dataset_files[b]]_vars

C30_Witness ==
    /\ proc.pc = "exited"
    /\ proc.command_args.config = "template"
    /\ proc.command_args.rewrite_config
    /\ proc.command_args.minibatch = NoMinibatch
    /\ FileOf(dataset_files, proc) = [exists |-> TRUE, props |-> [init_dataset_file EXCEPT !.frozen = "true"]]

\* the progress the two invocations recorded, both having exited
BothExited == proc.pc = "exited" /\ rival.pc = "exited"

RecordedByBoth == proc.props.processed \cup rival.props.processed

\* C26: when two invocations on the same dataset and body type ran one
\* after the other, the run-state file they leave holds the progress of
\* both; when they overlapped it may lack the progress one of them
\* recorded, the file being written back whole by whichever saves last.
C26_SequentialKeepsUpdates ==
    (BothExited /\ ~overlap) =>
        /\ RecordedByBoth \subseteq FileOf(dataset_files, proc).props.processed
        /\ FileOf(dataset_files, proc).props \in {proc.props, rival.props}

C26_Witness ==
    /\ BothExited
    /\ overlap
    /\ proc.persisted /\ rival.persisted
    /\ proc.passes # <<>> /\ rival.passes # <<>>
    /\ ~(RecordedByBoth \subseteq FileOf(dataset_files, proc).props.processed)

\* ------------------------------------------------- pipeline properties
\* s is an initial part of t
IsPrefix(s, t) == Len(s) <= Len(t) /\ SubSeq(t, 1, Len(s)) = s

InTrace(o, stage) == \E k \in 1..Len(o.trace) : o.trace[k] = stage

\* the stage was called and returned
Completed(o, stage) == InTrace(o, stage) /\ o.fail # stage

\* the files of a session directory with this tag, kind and extension
FilesLike(store, dir, tag, kind, ext) ==
    {f \in store[dir].files : f.tag = tag /\ f.kind = kind /\ f.ext = ext}

\* C27: in a 3D request that reached the service the calls are made in the
\* order body profile, assembly, serialization, snapshots, box mesh,
\* simulation, export, each after the one before it returned: the session
\* directory exists from the start, the files of a stage are there once
\* it returned and not before it was called, the export is not called
\* unless the simulation returned, and the response carries a session id
\* and a delivery path exactly when the export wrote the file.
C27_StagesInOrder ==
    (last.op \in GenerationOps3D /\ last.trace # <<>>) =>
        LET dir == session_dir(last.uuid)
            name == "Configured_design"
            spec == FilesLike(store3d, dir, name, "_specification", "json")
            body == FilesLike(store3d, dir, "body_measurements", "", "yaml")
            design == FilesLike(store3d, dir, "design_params", "", "yaml")
            box == FilesLike(store3d, dir, name, "_boxmesh", "obj")
            glb == FilesLike(store3d, dir, name, "_sim", "glb")
        IN  /\ IsPrefix(last.trace,
                        <<"body", "assembly", "serialize", "save", "boxmesh", "sim", "export">>)
            /\ store3d[dir].exists
            /\ (spec # {}) = Completed(last, "serialize")
            /\ (body # {}) = Completed(last, "save")
            /\ (design # {}) = Completed(last, "save")
            /\ (box # {}) = Completed(last, "boxmesh")
            /\ InTrace(last, "export") => Completed(last, "sim")
            /\ (glb # {}) = Completed(last, "export")
            /\ (last.status = 200) = Completed(last, "export")
            /\ IF last.status = 200
               THEN /\ last.session_id = last.uuid
                    /\ FileAt(store3d, last.path) = glb
               ELSE /\ last.session_id = NoSession
                    /\ last.path = NoPath

C27_Witness ==
    /\ last.op = "generate3d_design"
    /\ last.status = 500
    /\ last.trace = <<"body", "assembly", "serialize", "save", "boxmesh", "sim">>
    /\ FilesLike(store3d, session_dir(last.uuid), "Configured_design", "_boxmesh", "obj") # {}
    /\ glb_files(store3d, last.uuid) = {}

\* the file formats of the 2D artifacts and of the snapshots
Formats2D == {"json", "svg", "png", "pdf", "yaml"}

\* C28: a 2D generation request enters only the raw-specification and the
\* parametric method of the 2D service; every file a 2D session directory
\* holds is a 2D artifact or a snapshot (no box mesh, no simulated mesh,
\* no GLB), on the parametric, the raw and the fallback path alike; and
\* the simulation properties and the store of the 3D service stay as
\* they were constructed.
C28_NoMeshStagesIn2D ==
    /\ \A sid \in SessionIds : \A f \in storeSvg[sid].files :
         /\ f.ext \in Formats2D
         /\ f.kind \notin {"_boxmesh", "_sim"}
    /\ last.op \in SvgGenerationOps =>
         /\ \A k \in 1..Len(last.trace) : last.trace[k] \in {"raw", "design"}
         /\ last.uuid # NoSession => glb_files(storeSvg, last.uuid) = {}
    /\ service.sim_props = GarmentTo3DService_init.sim_props
    /\ \A sid \in SessionIds : store3d[sid] = NoDir

C28_Witness ==
    /\ last.op = "generate_svg"
    /\ last.status = 200
    /\ last.trace = <<"raw", "design">>
    /\ storeSvg[session_dir(last.uuid)].files # {}
    /\ \A f \in storeSvg[session_dir(last.uuid)].files : f.ext \in Formats2D

\* the store of the service that answered `o`, and the folder its pattern
\* was serialized to
StoreOf(o) == IF o.op \in GenerationOps3D THEN store3d ELSE storeSvg

PatternFolderOf(o) == IF o.op \in GenerationOps3D THEN "Configured_design" ELSE o.output_dir

\* the result of `o` came from the parametric path, directly or as fallback
Parametric(o) == o.op \in GenerationOps3D \/ o.trace[Len(o.trace)] = "design"

\* the design the parametric path of `o` was given
DesignGiven(o) ==
    IF o.op \in SvgGenerationOps /\ o.trace = <<"raw", "design">>
    THEN EmbeddedDesign(o.pattern) ELSE o.design

\* C29: after a successful generation the folder the pattern was
\* serialized to holds the serialized pattern and one body snapshot, of
\* the body profile the request resolved to; the session directory holds
\* a design snapshot exactly when the result came from the parametric
\* path, in that same folder, recording the design the request gave or,
\* after a fallback, the one embedded in the raw specification.
C29_SnapshotsWritten ==
    (last.op \in GenerationOps3D \cup SvgGenerationOps /\ last.status = 200) =>
        LET store == StoreOf(last)
            dir == session_dir(last.uuid)
            folder == PatternFolderOf(last)
            body == {f \in BodySnapshots(store, dir) : f.folder = folder}
            design == DesignSnapshots(store, dir)
        IN  /\ FilesLike(store, dir, folder, "_specification", "json") # {}
            /\ Cardinality(body) = 1
            /\ \A f \in body :
                 ProfileOf(f) = resolve_body(IF last.op \in GenerationOps3D THEN service
                                             ELSE svg_service, last.body).body
            /\ (design # {}) = Parametric(last)
            /\ \A f \in design : f.folder = folder /\ f.data = <<"design", DesignGiven(last)>>

C29_Witness ==
    /\ last.op = "generate_svg"
    /\ last.status = 200
    /\ last.trace = <<"raw", "design">>
    /\ last.body = "B1"
    /\ \E f \in DesignSnapshots(storeSvg, session_dir(last.uuid)) :
         f.folder = "SVG_Pattern" /\ f.data = <<"design", "D2">>

\* the session was generated in full: a generate3d response delivered its path
Generated(sid) == delivered[sid] # NoPath

\* C25: on a session that was generated in full, in any order of cleanup
\* and download calls (a handler runs to its end before the next one
\* starts: `async def` without await), every cleanup is answered 200 and
\* every download is answered 200 with the artifact or 404, never
\* another error.
C25_CleanupDownloadRace ==
    (last.op \in {"download", "cleanup"} /\ Generated(last.arg)) =>
        /\ last.op = "cleanup" => last.status = 200
        /\ last.op = "download" =>
             \/ last.status = 200 /\ last.path = delivered[last.arg]
             \/ last.status = 404

\* ---------------------------------------------------------------- C31
\* the main pass of the invocation that ran last reported finished
MainFinished(p) ==
    p.passes # <<>> /\ p.passes[1].name = "main" /\ p.passes[1].finished

\* the main pass runs no item the persisted run state records as processed
MainSkipsProcessed ==
    main_pass =>
        LastPass(proc').ran \cap
            FileOf(dataset_files, proc).props.processed = {}

\* C31: batch processing is resumable to completion: once an invocation on
\* an unfrozen dataset has started, with any minibatch size, repeating the
\* invocation leads to one whose main pass reports finished, and the main
\* pass of an invocation never runs an item that the run state persisted
\* by the earlier invocations records as processed.
C31_ResumableToCompletion ==
    /\ [][MainSkipsProcessed]_vars
    /\ (proc.pc = "main") ~> MainFinished(proc)

\* a later invocation, capped to a minibatch, found items processed, ran
\* the remaining ones only, and its main pass reported finished
C31_Witness ==
    /\ proc.pc \in {"resim", "save"}
    /\ proc.command_args.minibatch # NoMinibatch
    /\ MainFinished(proc)
    /\ proc.passes[1].ran # {}
    /\ FileOf(dataset_files, proc).props.processed # {}
    /\ proc.passes[1].ran \cap FileOf(dataset_files, proc).props.processed = {}

\* ---------------------------------------------------------------- C32
\* the body type the command line of p asks for
FlagOf(p) == IF p.command_args.default_body THEN "default_body" ELSE "random_body"

\* C32: run state is keyed by body type: a step of an invocation changes
\* the run-state file and the output folder of no body type but the one
\* its default-body flag names, and an invocation that starts is stopped
\* as frozen, or starts from the processed items, according to the file of
\* its own body type only.
C32_KeyedByBodyType ==
    [][\A b \in BodyTypes :
          /\ b # FlagOf(proc') =>
               /\ dataset_files'[b] = dataset_files[b]
               /\ output_paths'[b] = output_paths[b]
          /\ (Starts /\ b = FlagOf(proc')) =>
               /\ (proc'.pc = "exited") = FrozenFile(dataset_files[b])
               /\ proc'.props.processed = dataset_files'[b].props.processed
               /\ proc'.props.fails = dataset_files'[b].props.fails]_vars

\* a default-body invocation has saved its run state with an item processed
\* while the random-body file, saved by an earlier invocation, records
\* other progress, or is frozen while the default-body one is not
C32_Witness ==
    /\ proc.pc = "exit"
    /\ proc.command_args.default_body
    /\ dataset_files["default_body"].props.processed # {}
    /\ dataset_files["random_body"].exists
    /\ \/ /\ dataset_files["random_body"].props.sys_info
          /\ dataset_files["random_body"].props.processed
               # dataset_files["default_body"].props.processed
       \/ FrozenFile(dataset_files["random_body"])

\* ---------------------------------------------------------------- C33
DirectOps == {"direct_generate_3d", "direct_generate_svg"}

\* the store the service of the call works in
DirectStore(o, s3d, ssvg) == IF o.op = "direct_generate_3d" THEN s3d ELSE ssvg

\* C33: creating the session directory is idempotent-safe: a generation
\* call of either service for a session id whose directory exists gets
\* past the creation of the directory, succeeds when no later call of it
\* raises, and leaves in the directory a file at every path it held
\* before the call.
C33_MkdirIdempotentSafe ==
    [][(last'.op \in DirectOps /\ last'.existed) =>
          LET before == DirectStore(last', store3d, storeSvg)[last'.uuid]
              after == DirectStore(last', store3d', storeSvg')[last'.uuid]
          IN  /\ before.exists
              /\ after.exists
              /\ last'.trace # <<>>
              /\ (last'.op = "direct_generate_3d" /\ last'.clean) => last'.status = 200
              /\ \A f \in before.files : \E g \in after.files : SamePath(f, g)]_vars

\* a call for a session id whose directory existed has returned, and the
\* directory still holds a file that this call did not write
C33_Witness ==
    /\ last.op = "direct_generate_svg"
    /\ last.existed
    /\ last.status = 200
    /\ \E f \in storeSvg[last.uuid].files : f.folder # last.output_dir

\* ---------------------------------------------------------------- C34
\* the generation request that ran last succeeded
SvgSucceeded(o) == o.op \in SvgGenerationOps /\ o.status = 200

\* C34: after a successful generateSVG that returned svgPath and pngPath
\* the session directory holds exactly one file that passes the SVG filter
\* of the download and exactly one that passes the PNG filter, those at
\* svgPath and pngPath, and a download that follows answers 200 with that
\* file, also when the fallback produced the result.
C34_DownloadsReturnGenerated ==
    /\ [](SvgSucceeded(last) =>
            /\ {PathOf(last.uuid, f) : f \in pattern_svg_files(storeSvg, last.uuid)} = {last.path}
            /\ {PathOf(last.uuid, f) : f \in pattern_png_files(storeSvg, last.uuid)} = {last.png})
    /\ [][(SvgSucceeded(last) /\ last'.arg = last.uuid) =>
            /\ last'.op = "download_svg" => (last'.status = 200 /\ last'.path = last.path)
            /\ last'.op = "download_png" => (last'.status = 200 /\ last'.path = last.png)]_vars

\* ---------------------------------------------------------------- C35
\* a generation request that entered the service method and raised in it
FailedInService(o) ==
    /\ o.op \in GenerationOps3D \cup SvgGenerationOps
    /\ o.uuid # NoSession
    /\ o.trace # <<>>
    /\ o.status # 200

\* C35: a generation request that fails in a stage of the service leaves
\* its session directory in the store with the files written before the
\* failure, the response names no session id, and a session directory
\* stays as it is over every step that is not a cleanup for its id.
C35_FailedSessionStays ==
    /\ [](FailedInService(last) =>
            /\ StoreOf(last)[last.uuid].exists
            /\ last.session_id = NoSession
            /\ (last.op \in GenerationOps3D /\ Completed(last, "serialize")) =>
                 FilesLike(store3d, last.uuid, "Configured_design", "_pattern", "svg") # {})
    /\ [][\A s \in SessionIds :
            /\ (store3d[s].exists /\ ~(last'.op = "cleanup" /\ last'.arg = s)) =>
                  store3d'[s] = store3d[s]
            /\ (storeSvg[s].exists /\ ~(last'.op = "cleanup_svg" /\ last'.arg = s)) =>
                  storeSvg'[s] = storeSvg[s]]_vars

\* the directory of a request that failed after writing files is still
\* there, with no artifact in it, after a later request for another session
C35_Witness ==
    /\ last.op \in GenerationOps3D
    /\ last.uuid # NoSession
    /\ \E s \in Ids3D \ {last.uuid} :
         /\ store3d[s].exists
         /\ store3d[s].files # {}
         /\ glb_files(store3d, s) = {}

\* ---------------------------------------------------------------- C36
Downloads == {"download", "download_svg", "download_png"}

\* C36: cleanupSession(s) and downloadArtifact(s, kind) touch only session
\* s of their own store: a cleanup removes the directory of s in the store
\* of its service and leaves every other directory of that store, and the
\* whole of the other store (a session with the same id included), as they
\* were; a download changes no directory and no file.
C36_OnlyOwnSession ==
    [][/\ last'.op = "cleanup" =>
            /\ ~store3d'[last'.arg].exists
            /\ \A s \in SessionIds \ {last'.arg} : store3d'[s] = store3d[s]
            /\ storeSvg' = storeSvg
       /\ last'.op = "cleanup_svg" =>
            /\ ~storeSvg'[last'.arg].exists
            /\ \A s \in SessionIds \ {last'.arg} : storeSvg'[s] = storeSvg[s]
            /\ store3d' = store3d
       /\ last'.op \in Downloads =>
            /\ store3d' = store3d
            /\ storeSvg' = storeSvg]_vars

\* a 3D cleanup has removed a directory while the SVG store holds a
\* session of the same id and the 3D store another session
C36_Witness ==
    /\ last.op = "cleanup"
    /\ last.existed
    /\ storeSvg[last.arg].exists
    /\ storeSvg[last.arg].files # {}
    /\ \E s \in SessionIds \ {last.arg} : store3d[s].exists /\ glb_files(store3d, s) # {}

\* ---------------------------------------------------------------- C37
\* either generation method gives the same result, files included, for an
\* empty body-override map as for none
EmptyBodyAsNone ==
    /\ \A design \in DesignValues, ext \in Ext3D, sid \in Ids3D :
         service_generate_3d(service, store3d, design, sid, "Empty", ext)
           = service_generate_3d(service, store3d, design, sid, "None", ext)
    /\ \A design \in DesignValues, pattern \in PatternValues, sid \in IdsSvg :
         \A with_printable \in BOOLEAN, ext \in ExtSvgFor(pattern) :
           service_generate_svg(svg_service, storeSvg, design, pattern, sid, "Empty",
                                with_printable, ext)
             = service_generate_svg(svg_service, storeSvg, design, pattern, sid, "None",
                                    with_printable, ext)

\* the default profile of the service that ran the request
DefaultProfileOf(o) ==
    IF o.op \in GenerationOps3D THEN service.default_body_params
    ELSE svg_service.default_body_params

\* what the caller and the store see of the answer to a generateSVG request
\* with these two dictionaries
SvgAnswer(pattern, design) ==
    LET h == generate_svg_handler(svg_service, storeSvg, pattern, design, "None", FALSE,
                                  NoSession, [raw |-> "none", design |-> "none"])
    IN  [status |-> h.out.status, session_id |-> h.out.session_id, store |-> h.store]

\* C37: an empty input is treated as an absent one: a request with an
\* empty body-override map works with the default body profile of its
\* service, with the same result as a request with no map, and a
\* generateSVG request whose two dictionaries are both empty is rejected,
\* before a session is made, with the answer given when both are absent.
C37_EmptyAsAbsent ==
    /\ EmptyBodyAsNone
    /\ (last.op \in GenerationOps3D \cup SvgGenerationOps /\ last.body = "Empty") =>
          \A f \in BodySnapshots(StoreOf(last), session_dir(last.uuid)) :
              ProfileOf(f) = DefaultProfileOf(last)
    /\ (last.op = "generate_svg" /\ last.pattern = "Empty" /\ last.design = "Empty") =>
          /\ last.status # 200
          /\ last.uuid = NoSession
          /\ last.session_id = NoSession
          /\ \A s \in SessionIds : ~storeSvg[s].exists
          /\ SvgAnswer("Empty", "Empty") = SvgAnswer("None", "None")

\* a request with an empty override map wrote the default profile as its
\* body snapshot
C37_Witness ==
    /\ last.op \in GenerationOps3D \cup SvgGenerationOps
    /\ last.body = "Empty"
    /\ last.status = 200
    /\ BodySnapshots(StoreOf(last), session_dir(last.uuid)) # {}
    /\ \A f \in BodySnapshots(StoreOf(last), session_dir(last.uuid)) : ProfileOf(f) = mean_all

\* ---------------------------------------------------------------- C38
\* C38: in the 3D viewer a reset that succeeds, from any state, leaves
\* body_visible true, current_garment null and no garment object, and a
\* get_state that follows reports just that; toggle_body without an
\* argument flips body_visible and with an argument sets it, no other call
\* but reset changes it, and get_state reports the value it has.
C38_ResetRestores ==
    /\ []((viewer.op = "reset" /\ viewer.status = 200) =>
            /\ viewer.self.body_visible = TRUE
            /\ viewer.self.current_garment = None
            /\ viewer.self.ui_garment_3d = None)
    /\ [][/\ (viewer.op = "reset" /\ viewer.status = 200 /\ viewer'.op = "state") =>
               (viewer'.body_visible = TRUE /\ viewer'.current_garment = None)
          /\ viewer'.op = "toggle_body" =>
               viewer'.self.body_visible =
                   (IF viewer'.arg = None THEN ~viewer.self.body_visible
                    ELSE viewer'.arg = "true")
          /\ viewer'.op \in {"load_garment", "state"} =>
               viewer'.self.body_visible = viewer.self.body_visible
          /\ viewer'.op = "state" =>
               (viewer'.status = 200 /\ viewer'.body_visible = viewer.self.body_visible)]_vars

\* a reset succeeded in a viewer that had a garment loaded by a call
C38_Witness ==
    /\ viewer.op = "reset"
    /\ viewer.status = 200
    /\ viewer.uploaded \in {"a.glb", "b.GLB"}
    /\ viewer.self.ui_garment_3d = None
    /\ viewer.self.current_garment = None

\* ---------------------------------------------------------------- C39
\* the path names a GLB file that exists
LoadableGlb(file_path) == file_path \in {"a.glb", "b.GLB"}

\* a load_garment call for a path that is no existing GLB file is answered
\* with an error and leaves the renderer and the stored upload as they were
RejectedLoadChangesNothing ==
    (viewer'.op = "load_garment" /\ ~LoadableGlb(viewer'.arg)) =>
        /\ viewer'.status # 200
        /\ viewer'.self = viewer.self
        /\ viewer'.uploaded = viewer.uploaded

\* C39: a load_garment call whose path does not exist or is no GLB file is
\* rejected and changes nothing, and in every state current_garment is
\* non-null exactly when a garment object is attached to the scene.
C39_GarmentIffAttached ==
    /\ [][RejectedLoadChangesNothing]_vars
    /\ [](viewer.self.current_garment # None <=> viewer.self.ui_garment_3d = "attached")

====
